---------------------------- MODULE Spec2Model ----------------------------
(***************************************************************************)
(* IngredientIQ: the ingredient resolution pipeline.                       *)
(*                                                                         *)
(*   app/analyzer.py   SkincareAnalyzer   the resolution cascade           *)
(*   app/scraper.py    IngredientScraper  extraction chain, rating         *)
(*                                        converter, safety-score resolver *)
(*   app/database.py   ProductDatabase    the product cache                *)
(*                                                                         *)
(* Python strings are TLA+ strings; TLC evaluates Len, \o and SubSeq on    *)
(* them, so every text operation below works on the characters.            *)
(*                                                                         *)
(* Specifications:                                                         *)
(*   Spec          the cascade, one request after another                  *)
(*   SpecRatings   the rating converter and the skin-type table            *)
(*   SpecResolver  the per-ingredient safety-score resolver                *)
(*   SpecExtract   the extraction chain on one product page                *)
(***************************************************************************)
EXTENDS Integers, Sequences, FiniteSets, TLC

VARIABLES
    \* ---- the cascade (Spec) ----
    db,                        \* ProductDatabase.collection: the stored metadatas
    gemini_model,              \* GeminiClient.model: "none" when no API key is set
    ingredient_ratings_cache,  \* IngredientScraper attribute (may be absent)
    pc,                        \* position of the request being served
    product_name,              \* analyze_product: the (stripped) argument
    cached_product,            \* analyze_product: cached_product
    links,                     \* _scrape_incidecoder: product links left to try
    ingredients_list,          \* analyze_product: ingredients_list
    valid_ingredients,         \* analyze_product: valid_ingredients
    idx,                       \* analyze_product: loop position in valid_ingredients
    ingredients_analysis,      \* analyze_product: ingredients_analysis
    allergen_warnings,         \* analyze_product: allergen_warnings
    risk_summary,              \* analyze_product: risk_summary
    alternatives,              \* analyze_product: gemini_alternatives
    result,                    \* what analyze_product returned or raised
    nRequests,                 \* requests started so far
    trace,                     \* history: the kinds of collaborator calls of this request
    \* ---- single calls of pure functions (the other specifications) ----
    stage,                     \* "call" before the function is applied, "out" after
    call,                      \* the arguments
    ret                        \* the value returned

cascadeVars == <<db, gemini_model, ingredient_ratings_cache, pc, product_name, cached_product,
                 links, ingredients_list, valid_ingredients, idx,
                 ingredients_analysis, allergen_warnings, risk_summary,
                 alternatives, result, nRequests, trace>>
callVars == <<stage, call, ret>>
vars == <<cascadeVars, callVars>>

-----------------------------------------------------------------------------
(* Integers *)

Min(a, b) == IF a <= b THEN a ELSE b
Max(a, b) == IF a >= b THEN a ELSE b

-----------------------------------------------------------------------------
(* Python str operations, on characters *)

UpperChars == "ABCDEFGHIJKLMNOPQRSTUVWXYZ"
LowerChars == "abcdefghijklmnopqrstuvwxyz"
DigitChars == "0123456789"

Char(s, i) == SubSeq(s, i, i)

\* the characters of a string
Chars(s) == {Char(s, i) : i \in 1..Len(s)}

UpperSet == Chars(UpperChars)
LowerSet == Chars(LowerChars)
DigitSet == Chars(DigitChars)

\* position of the one-character string c in alphabet, 0 when absent
IndexIn(c, alphabet) ==
    IF \E i \in 1..Len(alphabet) : Char(alphabet, i) = c
    THEN CHOOSE i \in 1..Len(alphabet) : Char(alphabet, i) = c
    ELSE 0

IsUpper(c) == c \in UpperSet
IsLower(c) == c \in LowerSet
IsDigit(c) == c \in DigitSet
IsAlpha(c) == IsUpper(c) \/ IsLower(c)          \* str.isalpha
IsAlnum(c) == IsAlpha(c) \/ IsDigit(c)          \* str.isalnum
IsSpace(c) == c \in {" ", "\t", "\n"}           \* \s

LowerChar(c) == IF IsUpper(c) THEN Char(LowerChars, IndexIn(c, UpperChars)) ELSE c

RECURSIVE Lower(_)
\* str.lower
Lower(s) ==
    IF Len(s) = 0 THEN ""
    ELSE IF Len(s) = 1 THEN LowerChar(s)
    ELSE Lower(SubSeq(s, 1, Len(s) \div 2)) \o Lower(SubSeq(s, Len(s) \div 2 + 1, Len(s)))

\* pattern in s
Contains(s, pattern) ==
    \E i \in 1..(Len(s) - Len(pattern) + 1) : SubSeq(s, i, i + Len(pattern) - 1) = pattern

\* str.startswith, str.endswith
StartsWith(s, p) == Len(p) <= Len(s) /\ SubSeq(s, 1, Len(p)) = p
EndsWith(s, p) == Len(p) <= Len(s) /\ SubSeq(s, Len(s) - Len(p) + 1, Len(s)) = p

RECURSIVE LStrip(_)
LStrip(s) == IF s # "" /\ IsSpace(Char(s, 1)) THEN LStrip(SubSeq(s, 2, Len(s))) ELSE s
RECURSIVE RStrip(_)
RStrip(s) == IF s # "" /\ IsSpace(Char(s, Len(s))) THEN RStrip(SubSeq(s, 1, Len(s) - 1)) ELSE s
\* str.strip
Strip(s) == RStrip(LStrip(s))

\* str.count of a one-character string
CountChar(s, c) == Cardinality({i \in 1..Len(s) : Char(s, i) = c})

\* the elements of a list
ToSet(seq) == {seq[i] : i \in 1..Len(seq)}

\* any(k in s for k in keys)
ContainsAny(s, keys) == \E k \in keys : Contains(s, k)

RECURSIVE Decimal(_)
\* str(n) of an int n >= 0
Decimal(n) == IF n < 10 THEN Char(DigitChars, n + 1)
              ELSE Decimal(n \div 10) \o Char(DigitChars, (n % 10) + 1)

-----------------------------------------------------------------------------
(* RatingConverter: scraper.py, the functions on INCIdecoder's raw ratings *)

\* INCIdecoder's irritancy and comedogenicity ratings are 0..MaxRating
MaxRating == 5
\* the safety scale is 0..MaxScore
MaxScore == 10

\* what a table cell can hold as the overall rating
OverallRatings == {"Unknown", "Superstar", "Goodie", "Icky", "goodie", "ICKY"}

\* the mutation: the two sub-scores are added instead of taking the worse one
convert_adding(irritancy, comedogenicity, overall_rating, function) ==
    LET base_score == irritancy * 2 + comedogenicity * 2
        rating_lower == Lower(overall_rating)
        adjusted == IF Contains(rating_lower, "superstar") THEN Max(0, base_score - 2)
                    ELSE IF Contains(rating_lower, "goodie") THEN Max(0, base_score - 1)
                    ELSE IF Contains(rating_lower, "icky") THEN Min(10, base_score + 2)
                    ELSE base_score
    IN  Max(0, Min(10, adjusted))

\* _convert_incidecoder_to_safety_score
convert_incidecoder_to_safety_score(irritancy, comedogenicity, overall_rating, function) ==
    LET irritancy_score == irritancy * 2
        comedogenicity_score == comedogenicity * 2
        base_score == Max(irritancy_score, comedogenicity_score)
        rating_lower == Lower(overall_rating)
        adjusted == IF Contains(rating_lower, "superstar") THEN Max(0, base_score - 2)
                    ELSE IF Contains(rating_lower, "goodie") THEN Max(0, base_score - 1)
                    ELSE IF Contains(rating_lower, "icky") THEN Min(10, base_score + 2)
                    ELSE base_score
    IN  Max(0, Min(10, adjusted))

\* _get_risk_level_from_score
get_risk_level_from_score(score) ==
    IF score <= 2 THEN "Safe" ELSE IF score <= 4 THEN "Medium" ELSE "High"

\* [st for st in skin_types if st not in removed]
Without(skin_types, removed) == SelectSeq(skin_types, LAMBDA st : st \notin removed)

\* _get_skin_types_from_ratings
get_skin_types_from_ratings(comedogenicity, irritancy) ==
    LET candidates == IF comedogenicity >= 4 THEN <<"dry">>
                      ELSE IF comedogenicity >= 3 THEN <<"normal", "dry">>
                      ELSE IF comedogenicity >= 1 THEN <<"normal", "combination">>
                      ELSE <<"all">>
        adjusted ==
            IF irritancy >= 4
            THEN LET kept == Without(candidates, {"sensitive"})
                 IN  IF kept = <<>> THEN <<"normal">> ELSE kept
            ELSE IF irritancy >= 3
            THEN LET kept == Without(candidates, {"sensitive", "all"})
                 IN  IF "all" \in ToSet(kept) THEN <<"normal", "oily", "combination">>
                     ELSE kept
            ELSE IF irritancy = 0 /\ comedogenicity = 0 THEN <<"all", "sensitive">>
            ELSE candidates
    IN  IF adjusted # <<>> THEN adjusted ELSE <<"normal">>

\* _check_known_allergens: the categories in the order of the dictionary
known_allergens == << <<"fragrance", "fragrance">>, <<"parfum", "fragrance">>,
                      <<"formaldehyde", "formaldehyde">>, <<"parabens", "parabens">>,
                      <<"sulfates", "sulfates">>, <<"alcohol denat", "drying alcohol">> >>

RECURSIVE AllergensFrom(_, _)
AllergensFrom(name_lower, i) ==
    IF i > Len(known_allergens) THEN <<>>
    ELSE (IF Contains(name_lower, known_allergens[i][1])
          THEN <<known_allergens[i][2]>> ELSE <<>>) \o AllergensFrom(name_lower, i + 1)

check_known_allergens(ingredient_name) == AllergensFrom(Lower(ingredient_name), 1)

\* _get_allergens_from_ratings: list(set(...)), kept as the set
get_allergens_from_ratings(irritancy, ingredient_name) ==
    (IF irritancy >= 3 THEN {"irritant"} ELSE {}) \cup ToSet(check_known_allergens(ingredient_name))

-----------------------------------------------------------------------------
(* Keyword fallback: scraper.py, _get_fallback_safety_score and its record *)

\* _get_fallback_safety_score
get_fallback_safety_score(ingredient_name) ==
    LET n == Lower(ingredient_name)
    IN  IF ContainsAny(n, {"water", "aqua"}) THEN 0
        ELSE IF ContainsAny(n, {"glycerin", "hyaluronic", "sodium hyaluronate", "ceramide"}) THEN 1
        ELSE IF ContainsAny(n, {"squalane", "panthenol", "allantoin", "betaine"}) THEN 1
        ELSE IF ContainsAny(n, {"niacinamide", "vitamin e", "tocopherol"}) THEN 2
        ELSE IF ContainsAny(n, {"salicylic acid", "lactic acid", "glycolic acid"}) THEN 3
        ELSE IF Contains(n, "oil") \/ Contains(n, "extract")
             THEN (IF ContainsAny(n, {"chamomile", "aloe", "green tea"}) THEN 3 ELSE 4)
        ELSE IF ContainsAny(n, {"retinol", "retinyl", "retinoic", "tretinoin"})
             THEN (IF Contains(n, "palmitate") THEN 4 ELSE 5)
        ELSE IF ContainsAny(n, {"phenoxyethanol", "benzyl alcohol", "potassium sorbate"}) THEN 3
        ELSE IF ContainsAny(n, {"parabens", "methylparaben", "propylparaben"}) THEN 4
        ELSE IF ContainsAny(n, {"fragrance", "parfum", "alcohol denat", "denatured alcohol"}) THEN 7
        ELSE IF ContainsAny(n, {"formaldehyde", "dmdm hydantoin", "quaternium-15"}) THEN 8
        ELSE IF ContainsAny(n, {"benzoyl peroxide", "hydrogen peroxide"}) THEN 6
        ELSE 3

\* _get_cosmetic_benefits
get_cosmetic_benefits(ingredient_name) ==
    LET n == Lower(ingredient_name)
    IN  IF Contains(n, "water") \/ Contains(n, "aqua")
        THEN "Base ingredient that provides hydration and helps dissolve other ingredients"
        ELSE IF Contains(n, "glycerin")
        THEN "Powerful humectant that attracts moisture to the skin"
        ELSE IF Contains(n, "acid") THEN "May help with exfoliation and skin renewal"
        ELSE IF Contains(n, "oil")
        THEN "Provides moisturization and may help strengthen skin barrier"
        ELSE IF Contains(n, "extract")
        THEN "Plant-derived ingredient that may provide antioxidant benefits"
        ELSE "Cosmetic ingredient with specific formulation purposes"

\* _get_fallback_safety_score_dict, lines 524-555, with the score of line 535
FallbackRecord(ingredient_name, safety_score) ==
    [safety_score |-> safety_score,
     risk_level |-> IF safety_score <= 2 THEN "Safe"
                    ELSE IF safety_score <= 4 THEN "Medium" ELSE "High",
     function |-> "Cosmetic ingredient",
     benefits |-> get_cosmetic_benefits(ingredient_name),
     risks |-> IF safety_score <= 2 THEN "Generally well-tolerated"
               ELSE IF safety_score <= 4 THEN "May not suit all skin types"
               ELSE "High risk - patch test recommended",
     allergens |-> check_known_allergens(ingredient_name),
     skin_types |-> IF safety_score <= 2 THEN <<"all", "sensitive">>
                    ELSE IF safety_score <= 4 THEN <<"normal", "oily">>
                    ELSE <<"normal">>,
     source |-> "keyword_fallback"]

\* _get_fallback_safety_score_dict
get_fallback_safety_score_dict(ingredient_name) ==
    FallbackRecord(ingredient_name, get_fallback_safety_score(ingredient_name))

-----------------------------------------------------------------------------
(* The ingredient page: scraper.py, _extract_incidecoder_safety_data         *)
(*                                                                           *)
(* A parsed ingredient page is the record of what the code asks of it:       *)
(*   function_elems     texts of the span/div elements whose class matches   *)
(*                      function|type|category, in document order            *)
(*   description_elems  texts of the p/div elements whose class matches      *)
(*                      description|benefit|what-it-does                     *)
(*   body               the remaining text of the page                       *)
(*   tables             the tables, each a list of rows <<cell 1, cell 2>>   *)

RECURSIVE JoinWith(_, _)
\* sep.join(list)
JoinWith(list, sep) ==
    IF list = <<>> THEN ""
    ELSE IF Len(list) = 1 THEN list[1]
    ELSE list[1] \o sep \o JoinWith(Tail(list), sep)

RECURSIVE RowsText(_)
RowsText(rows) ==
    IF rows = <<>> THEN ""
    ELSE rows[1][1] \o "\n" \o rows[1][2] \o "\n" \o RowsText(Tail(rows))

RECURSIVE TablesText(_)
TablesText(tables) ==
    IF tables = <<>> THEN "" ELSE RowsText(tables[1]) \o TablesText(Tail(tables))

\* soup.get_text(): every text of the page, the tables' cells included
get_text(soup) ==
    JoinWith(soup.function_elems, "\n") \o "\n" \o JoinWith(soup.description_elems, "\n")
        \o "\n" \o soup.body \o "\n" \o TablesText(soup.tables)

\* a character that \b does not separate from a digit
IsWordChar(c) == IsAlnum(c) \/ c = "_"

\* re.findall(r'\b([0-5])\b', text)[0] as a number, -1 when there is no match
FirstRating(text) ==
    LET hits == {i \in 1..Len(text) :
                    /\ Char(text, i) \in Chars("012345")
                    /\ (i = 1 \/ ~IsWordChar(Char(text, i - 1)))
                    /\ (i = Len(text) \/ ~IsWordChar(Char(text, i + 1)))}
    IN  IF hits = {} THEN 0 - 1
        ELSE LET first == CHOOSE i \in hits : \A j \in hits : i <= j
             IN  IndexIn(Char(text, first), DigitChars) - 1

NoRatings == [found |-> FALSE, irritancy |-> 0 - 1, comedogenicity |-> 0 - 1, overall_rating |-> ""]

RECURSIVE RatingsFromRows(_, _)
\* the loop of _extract_incidecoder_ratings_from_table: a later row overwrites
\* an earlier one; a key that was never set is -1 (or "" for the overall rating)
RatingsFromRows(rows, ratings) ==
    IF rows = <<>> THEN ratings
    ELSE LET header == Strip(Lower(rows[1][1]))
             value_text == Strip(rows[1][2])
             number == FirstRating(value_text)
             next ==
                 IF ContainsAny(header, {"irritan", "irrit"})
                 THEN (IF number >= 0 THEN [ratings EXCEPT !.irritancy = number] ELSE ratings)
                 ELSE IF ContainsAny(header, {"comedogenic", "acne", "pore"})
                 THEN (IF number >= 0 THEN [ratings EXCEPT !.comedogenicity = number] ELSE ratings)
                 ELSE IF ContainsAny(header, {"rating", "overall", "assessment"})
                 THEN (IF ContainsAny(Lower(value_text), {"goodie", "superstar", "icky"})
                       THEN [ratings EXCEPT !.overall_rating = value_text] ELSE ratings)
                 ELSE ratings
         IN  RatingsFromRows(Tail(rows), next)

\* _extract_incidecoder_ratings_from_table; found = the dictionary is not empty
extract_incidecoder_ratings_from_table(table) ==
    LET r == RatingsFromRows(table, NoRatings)
    IN  [r EXCEPT !.found = (r.irritancy >= 0 \/ r.comedogenicity >= 0 \/ r.overall_rating # "")]

RECURSIVE FirstTableRatings(_)
\* the loop over the tables: the first table that gives ratings, with the
\* .get defaults for the keys it did not give
FirstTableRatings(tables) ==
    IF tables = <<>>
    THEN [irritancy |-> 0, comedogenicity |-> 0, overall_rating |-> "Unknown"]
    ELSE LET r == extract_incidecoder_ratings_from_table(tables[1])
         IN  IF r.found
             THEN [irritancy |-> IF r.irritancy >= 0 THEN r.irritancy ELSE 0,
                   comedogenicity |-> IF r.comedogenicity >= 0 THEN r.comedogenicity ELSE 0,
                   overall_rating |-> IF r.overall_rating # "" THEN r.overall_rating
                                      ELSE "Unknown"]
             ELSE FirstTableRatings(Tail(tables))

\* re.search(r'comedogenic[^0-9]*([0-5])', page_text): the digit matched, -1
\* when there is no match.  An occurrence of "comedogenic" matches when the
\* first digit after it is 0..5; the leftmost matching occurrence is taken.
ComedogenicMatch(page_text) ==
    LET word == "comedogenic"
        FirstDigitAfter(p) ==
            LET ds == {i \in (p + Len(word))..Len(page_text) : IsDigit(Char(page_text, i))}
            IN  IF ds = {} THEN 0 ELSE CHOOSE i \in ds : \A j \in ds : i <= j
        starts == {p \in 1..(Len(page_text) - Len(word) + 1) :
                      /\ SubSeq(page_text, p, p + Len(word) - 1) = word
                      /\ FirstDigitAfter(p) > 0
                      /\ Char(page_text, FirstDigitAfter(p)) \in Chars("012345")}
    IN  IF starts = {} THEN 0 - 1
        ELSE LET p == CHOOSE q \in starts : \A r \in starts : q <= r
             IN  IndexIn(Char(page_text, FirstDigitAfter(p)), DigitChars) - 1

\* risk_indicators, in the order of the dictionary
risk_indicators == << <<"irritant", 2>>, <<"sensitizer", 2>>, <<"allergen", 3>>,
                      <<"comedogenic", 2>>, <<"fragrance", 3>>, <<"alcohol", 2>>,
                      <<"preservative", 1>>, <<"safe", 0 - 1>>, <<"gentle", 0 - 1>>,
                      <<"natural", 0 - 1>> >>

\* the indicators found in the page text
FoundIndicators(page_text) ==
    SelectSeq(risk_indicators, LAMBDA ind : Contains(page_text, ind[1]))

RECURSIVE SumAdjustments(_)
SumAdjustments(found) == IF found = <<>> THEN 0 ELSE found[1][2] + SumAdjustments(Tail(found))

\* the first element text the loop accepts, "" when there is none
FirstText(accepted) == IF accepted = <<>> THEN "" ELSE accepted[1]

\* the places of the try block of _extract_incidecoder_safety_data where an
\* exception leaves it for the handler of line 513, named by their source
\* lines; 0 is the run without exception
ExtractionFaults == {0, 415, 448, 468, 474}

\* lines 387-412: the defaults, the function and the description of the page
SafetyDefaults(function_text, benefit_text) ==
    [safety_score |-> 3,
     risk_level |-> "Medium",
     function |-> IF function_text # "" THEN Strip(function_text) ELSE "Unknown",
     benefits |-> IF benefit_text # ""
                  THEN SubSeq(Strip(benefit_text), 1, Min(300, Len(Strip(benefit_text))))
                  ELSE "No data available",
     risks |-> "Standard precautions apply",
     allergens |-> <<>>,
     skin_types |-> <<"normal">>,
     source |-> "none"]

\* lines 417-441: the allergens and the score from the indicators found
WithIndicators(d, found) ==
    [d EXCEPT
       !.allergens = SelectSeq([i \in 1..Len(found) |-> found[i][1]],
                         LAMBDA w : w \in {"irritant", "sensitizer", "allergen"}),
       !.safety_score =
           IF Len(found) > 0
           THEN Max(0, Min(10, (3 * Len(found) + SumAdjustments(found)) \div Len(found)))
           ELSE 3]

\* lines 443-465: the score from the ratings r of the page's table
WithTableRatings(d, r) ==
    IF r.irritancy > 0 \/ r.comedogenicity > 0 \/ r.overall_rating # "Unknown"
    THEN [d EXCEPT
            !.safety_score = convert_incidecoder_to_safety_score(
                r.irritancy, r.comedogenicity, r.overall_rating, d.function),
            !.source = "INCIdecoder_ratings"]
    ELSE d

\* lines 467-471: int(safety_score + comedogenic_score * 0.5)
WithComedogenic(d, comedogenic_score) ==
    IF comedogenic_score >= 0
    THEN [d EXCEPT !.safety_score = d.safety_score + (comedogenic_score \div 2)]
    ELSE d

\* lines 473-479
WithSkinTypes(d, page_text) ==
    [d EXCEPT
       !.skin_types =
           IF Contains(page_text, "sensitive") /\ Contains(page_text, "good")
           THEN <<"all", "sensitive">>
           ELSE IF Contains(page_text, "oily") \/ Contains(page_text, "acne")
           THEN <<"oily", "combination">>
           ELSE IF Contains(page_text, "dry") THEN <<"dry", "normal">>
           ELSE d.skin_types]

\* lines 481-511: the risk level and the risks text from the final score
WithRiskLevel(d) ==
    [d EXCEPT
       !.risk_level = IF d.safety_score <= 2 THEN "Safe"
                      ELSE IF d.safety_score <= 4 THEN "Medium" ELSE "High",
       !.source = IF d.source = "none" THEN "text_analysis" ELSE d.source,
       !.risks = IF d.allergens # <<>>
                 THEN "May cause " \o JoinWith(d.allergens, ", ") \o ". Patch test recommended."
                 ELSE IF d.safety_score >= 6 THEN "High risk ingredient. Use with caution."
                 ELSE IF d.safety_score >= 4 THEN "Moderate risk. May not suit all skin types."
                 ELSE "Generally well-tolerated ingredient."]

\* the record after the table scan (lines 387-465)
AfterTables(soup, page_text) ==
    WithTableRatings(
        WithIndicators(
            SafetyDefaults(
                FirstText(SelectSeq(soup.function_elems,
                              LAMBDA t : Strip(t) # "" /\ Len(Strip(t)) < 100)),
                FirstText(SelectSeq(soup.description_elems,
                              LAMBDA t : Strip(t) # "" /\ Len(Strip(t)) > 20))),
            FoundIndicators(page_text)),
        FirstTableRatings(soup.tables))

\* the try block of _extract_incidecoder_safety_data with the page's lowered
\* text; an exception raised at line `fault` returns the record as filled so far
ExtractWithText(soup, page_text, fault) ==
    CASE fault = 415 ->
             SafetyDefaults(
                 FirstText(SelectSeq(soup.function_elems,
                               LAMBDA t : Strip(t) # "" /\ Len(Strip(t)) < 100)),
                 FirstText(SelectSeq(soup.description_elems,
                               LAMBDA t : Strip(t) # "" /\ Len(Strip(t)) > 20)))
      [] fault = 448 ->
             WithIndicators(
                 SafetyDefaults(
                     FirstText(SelectSeq(soup.function_elems,
                                   LAMBDA t : Strip(t) # "" /\ Len(Strip(t)) < 100)),
                     FirstText(SelectSeq(soup.description_elems,
                                   LAMBDA t : Strip(t) # "" /\ Len(Strip(t)) > 20))),
                 FoundIndicators(page_text))
      [] fault = 468 -> AfterTables(soup, page_text)
      [] fault = 474 -> WithComedogenic(AfterTables(soup, page_text), ComedogenicMatch(page_text))
      [] OTHER ->
             WithRiskLevel(
                 WithSkinTypes(
                     WithComedogenic(AfterTables(soup, page_text), ComedogenicMatch(page_text)),
                     page_text))

\* _extract_incidecoder_safety_data
extract_incidecoder_safety_data(soup, ingredient_name, fault) ==
    ExtractWithText(soup, Lower(get_text(soup)), fault)

-----------------------------------------------------------------------------
(* SafetyScoreResolver: scraper.py, get_comprehensive_ingredient_data *)

\* what requests.get gives: it raises (timeout, connection error), or it
\* returns a response with a status code and, parsed, the page
FetchRaises == [raises |-> TRUE, status_code |-> 0]
FetchStatus(code) == [raises |-> FALSE, status_code |-> code]
FetchPage(soup) == [raises |-> FALSE, status_code |-> 200, soup |-> soup]

\* _get_benefits_from_function
get_benefits_from_function(function) ==
    LET f == Lower(function)
    IN  IF Contains(f, "sunscreen") THEN "Provides UV protection and prevents sun damage"
        ELSE IF Contains(f, "moisturizer") \/ Contains(f, "humectant")
        THEN "Hydrates and moisturizes the skin"
        ELSE IF Contains(f, "emollient") THEN "Softens and smooths skin texture"
        ELSE IF Contains(f, "solvent")
        THEN "Helps dissolve other ingredients and improve texture"
        ELSE IF Contains(f, "viscosity") THEN "Improves product texture and consistency"
        ELSE IF Contains(f, "skin brightening")
        THEN "Helps brighten skin tone and reduce dark spots"
        ELSE IF Contains(f, "anti-acne") THEN "Helps treat and prevent acne breakouts"
        ELSE function

\* _get_risks_from_ratings
get_risks_from_ratings(irritancy, comedogenicity) ==
    LET risks ==
            (IF irritancy >= 4 THEN <<"high risk of skin irritation">>
             ELSE IF irritancy >= 3 THEN <<"moderate risk of skin irritation">>
             ELSE IF irritancy >= 1 THEN <<"low risk of skin irritation">>
             ELSE <<>>)
            \o (IF comedogenicity >= 4
                THEN <<"high risk of clogging pores and causing acne">>
                ELSE IF comedogenicity >= 3 THEN <<"moderate risk of clogging pores">>
                ELSE IF comedogenicity >= 1 THEN <<"slight pore-clogging potential">>
                ELSE <<>>)
    IN  IF risks # <<>>
        THEN "INCIdecoder ratings indicate this ingredient " \o JoinWith(risks, " and ") \o "."
        ELSE "INCIdecoder rates this ingredient as non-irritating and non-comedogenic."

\* a set as a list, in some order (list(set(...)))
RECURSIVE SetToSeq(_)
SetToSeq(S) == IF S = {} THEN <<>> ELSE LET x == CHOOSE y \in S : TRUE IN <<x>> \o SetToSeq(S \ {x})

\* get_ingredient_data_from_cache: the test of line 597
has_cached_ratings(cache, ingredient_name) ==
    cache.present /\ ingredient_name \in DOMAIN cache.data

\* get_ingredient_data_from_cache: the record of lines 601-614
CachedRecord(cached_data, ingredient_name) ==
    [safety_score |-> cached_data.safety_score,
     risk_level |-> get_risk_level_from_score(cached_data.safety_score),
     function |-> cached_data.function,
     benefits |-> get_benefits_from_function(cached_data.function),
     risks |-> get_risks_from_ratings(cached_data.irritancy, cached_data.comedogenicity),
     allergens |-> SetToSeq(get_allergens_from_ratings(cached_data.irritancy, ingredient_name)),
     skin_types |-> get_skin_types_from_ratings(cached_data.comedogenicity,
                                                cached_data.irritancy),
     source |-> cached_data.source]

cached_ingredient_data(cache, ingredient_name) ==
    CachedRecord(cache.data[ingredient_name], ingredient_name)

\* scrape_incidecoder_ingredient_safety: the page's data when the page was
\* fetched with status 200, the keyword fallback otherwise
scrape_incidecoder_ingredient_safety(ingredient_name, response, fault) ==
    IF ~response.raises /\ response.status_code = 200
    THEN extract_incidecoder_safety_data(response.soup, ingredient_name, fault)
    ELSE get_fallback_safety_score_dict(ingredient_name)

\* get_comprehensive_ingredient_data, lines 570-593: the page's data when it
\* is more than the defaults, the keyword fallback otherwise
MeaningfulOrFallback(incidecoder_data, ingredient_name) ==
    IF \/ incidecoder_data.function # "Unknown"
       \/ incidecoder_data.benefits # "No data available"
       \/ Len(incidecoder_data.allergens) > 0
       \/ incidecoder_data.safety_score # 3
    THEN incidecoder_data
    ELSE get_fallback_safety_score_dict(ingredient_name)

\* get_comprehensive_ingredient_data
get_comprehensive_ingredient_data(cache, ingredient_name, response, fault) ==
    IF has_cached_ratings(cache, ingredient_name)
    THEN cached_ingredient_data(cache, ingredient_name)
    ELSE MeaningfulOrFallback(
             scrape_incidecoder_ingredient_safety(ingredient_name, response, fault),
             ingredient_name)

-----------------------------------------------------------------------------
(* ExtractionChain: scraper.py, _extract_from_product_page and its helpers   *)
(*                                                                           *)
(* A parsed product page is the record of what the code asks of it:          *)
(*   links        the <a href=".../ingredients/..."> elements in document    *)
(*                order, each with its text and whether it lies inside a     *)
(*                div/section whose class matches ingredient|inci|formula    *)
(*   lists        the ul/ol elements, each the texts of its li elements      *)
(*   text_blocks  the strings of the p/div elements that hold one string     *)

\* the first position of pattern in s, 0 when absent
FirstIndex(s, pattern) ==
    LET hits == {i \in 1..(Len(s) - Len(pattern) + 1) :
                    SubSeq(s, i, i + Len(pattern) - 1) = pattern}
    IN  IF hits = {} THEN 0 ELSE CHOOSE i \in hits : \A j \in hits : i <= j

\* two texts whose whitespace runs are single spaces, put together
GlueSpaces(left, right) ==
    IF left # "" /\ right # "" /\ Char(left, Len(left)) = " " /\ Char(right, 1) = " "
    THEN left \o SubSeq(right, 2, Len(right))
    ELSE left \o right

RECURSIVE CollapseSpaces(_)
\* re.sub(r'\s+', ' ', s)
CollapseSpaces(s) ==
    IF Len(s) = 0 THEN ""
    ELSE IF Len(s) = 1 THEN (IF IsSpace(s) THEN " " ELSE s)
    ELSE GlueSpaces(CollapseSpaces(SubSeq(s, 1, Len(s) \div 2)),
                    CollapseSpaces(SubSeq(s, Len(s) \div 2 + 1, Len(s))))

\* re.sub(r'^(and\s+|or\s+|also\s+)', '', s, flags=re.I), s without whitespace runs
DropLeadingWord(s) ==
    IF StartsWith(Lower(s), "and ") THEN LStrip(SubSeq(s, 4, Len(s)))
    ELSE IF StartsWith(Lower(s), "or ") THEN LStrip(SubSeq(s, 3, Len(s)))
    ELSE IF StartsWith(Lower(s), "also ") THEN LStrip(SubSeq(s, 5, Len(s)))
    ELSE s

\* re.sub(r'(\s+and|\s+or)$', '', s, flags=re.I)
DropTrailingWord(s) ==
    IF EndsWith(Lower(s), " and") THEN RStrip(SubSeq(s, 1, Len(s) - 4))
    ELSE IF EndsWith(Lower(s), " or") THEN RStrip(SubSeq(s, 1, Len(s) - 3))
    ELSE s

\* the first match of \(([^)]+)\) in s from position `from` on: <<p, q>> with
\* "(" at p and the next ")" at q >= p + 2; <<0, 0>> when there is none
FirstParenthetical(s, from) ==
    LET NextClose(p) ==
            LET cs == {q \in (p + 1)..Len(s) : Char(s, q) = ")"}
            IN  IF cs = {} THEN 0 ELSE CHOOSE q \in cs : \A r \in cs : q <= r
        opens == {p \in from..Len(s) : Char(s, p) = "(" /\ NextClose(p) >= p + 2}
    IN  IF opens = {} THEN <<0, 0>>
        ELSE LET p == CHOOSE q \in opens : \A r \in opens : q <= r
             IN  <<p, NextClose(p)>>

RECURSIVE RemoveParentheticals(_, _)
\* re.sub(r'\([^)]+\)', '', s), scanning from position `from`
RemoveParentheticals(s, from) ==
    IF FirstParenthetical(s, from)[1] = 0 THEN SubSeq(s, from, Len(s))
    ELSE SubSeq(s, from, FirstParenthetical(s, from)[1] - 1)
             \o RemoveParentheticals(s, FirstParenthetical(s, from)[2] + 1)

\* lines 186-190: a first parenthetical of more than 30 characters removes
\* every parenthetical
DropLongParentheticals(s) ==
    IF /\ Contains(s, "(") /\ Contains(s, ")")
       /\ FirstParenthetical(s, 1)[1] > 0
       /\ FirstParenthetical(s, 1)[2] - FirstParenthetical(s, 1)[1] - 1 > 30
    THEN Strip(RemoveParentheticals(s, 1))
    ELSE s

\* _clean_ingredient_name
clean_ingredient_name(ingredient_name) ==
    IF ingredient_name = "" THEN ""
    ELSE DropLongParentheticals(
             DropTrailingWord(DropLeadingWord(CollapseSpaces(Strip(ingredient_name)))))

invalid_phrases ==
    {"click here", "read more", "learn more", "see full", "view all",
     "ingredients list", "full ingredients", "complete list", "product details",
     "how to use", "directions", "warnings", "precautions", "storage",
     "made in", "manufactured", "distributed by", "net weight", "volume",
     "expiry date", "best before", "use by", "batch number", "lot number"}

common_words == {"the", "and", "or", "but", "in", "on", "at", "to", "for", "of", "with", "by"}

\* the tests of _is_valid_ingredient_name on the lowered, stripped name; the
\* chemical patterns and the common names of lines 233-260 only choose between
\* `return True` and `return True`
ValidLowered(ingredient_name, ingredient_lower) ==
    /\ Len(ingredient_name) <= 70
    /\ ~ContainsAny(ingredient_lower, invalid_phrases)
    /\ Cardinality({w \in common_words :
                      Contains(" " \o ingredient_lower \o " ", " " \o w \o " ")}) <= 2
    /\ \E i \in 1..Len(ingredient_name) : IsAlpha(Char(ingredient_name, i))
    /\ 2 * Cardinality({i \in 1..Len(ingredient_name) : IsAlpha(Char(ingredient_name, i))})
           >= Len(ingredient_name)

\* _is_valid_ingredient_name
is_valid_ingredient_name(ingredient_name) ==
    /\ Len(ingredient_name) >= 3
    /\ ValidLowered(ingredient_name, Strip(Lower(ingredient_name)))

RECURSIVE Split(_, _)
\* str.split(delimiter), delimiter one character
Split(s, delimiter) ==
    IF FirstIndex(s, delimiter) = 0 THEN <<s>>
    ELSE <<SubSeq(s, 1, FirstIndex(s, delimiter) - 1)>>
             \o Split(SubSeq(s, FirstIndex(s, delimiter) + 1, Len(s)), delimiter)

\* the end of a match of ingredients?:?\s* that starts at position p of s
IngredientsMatchEnd(s, p) ==
    LET afterWord == p + Len("ingredient")
        afterS == IF afterWord <= Len(s) /\ Lower(Char(s, afterWord)) = "s"
                  THEN afterWord + 1 ELSE afterWord
        afterColon == IF afterS <= Len(s) /\ Char(s, afterS) = ":" THEN afterS + 1 ELSE afterS
        rest == {q \in afterColon..Len(s) : ~IsSpace(Char(s, q))}
    IN  IF rest = {} THEN Len(s) + 1 ELSE CHOOSE q \in rest : \A r \in rest : q <= r

RECURSIVE RemoveIngredientsWord(_)
\* re.sub(r'ingredients?:?\s*', '', s, flags=re.I)
RemoveIngredientsWord(s) ==
    IF FirstIndex(Lower(s), "ingredient") = 0 THEN s
    ELSE SubSeq(s, 1, FirstIndex(Lower(s), "ingredient") - 1)
             \o RemoveIngredientsWord(
                    SubSeq(s, IngredientsMatchEnd(s, FirstIndex(Lower(s), "ingredient")), Len(s)))

\* the list split on the first of ',', ';', '\n' that occurs in text
SplitOnDelimiter(text) ==
    IF Contains(text, ",") THEN Split(text, ",")
    ELSE IF Contains(text, ";") THEN Split(text, ";")
    ELSE IF Contains(text, "\n") THEN Split(text, "\n")
    ELSE <<>>

\* [clean(ing.strip()) for ing in parts if valid(clean(ing.strip()))]
CleanValid(parts) ==
    SelectSeq([i \in 1..Len(parts) |-> clean_ingredient_name(Strip(parts[i]))],
              is_valid_ingredient_name)

\* the first n elements of a list: list[:n]
Take(list, n) == SubSeq(list, 1, Min(n, Len(list)))

\* _parse_ingredient_text_improved
parse_ingredient_text_improved(text) ==
    IF Len(text) < 20 THEN <<>>
    ELSE Take(CleanValid(SplitOnDelimiter(CollapseSpaces(RemoveIngredientsWord(text)))), 15)

RECURSIVE AppendAll(_, _)
\* the mutation: the loop without its `not in ingredients` test
AppendAll(ingredients, names) ==
    IF names = <<>> THEN ingredients
    ELSE AppendAll(IF is_valid_ingredient_name(names[1])
                   THEN Append(ingredients, names[1]) ELSE ingredients,
                   Tail(names))

RECURSIVE AppendNew(_, _)
\* for name in names: if valid(name) and name not in ingredients: append
AppendNew(ingredients, names) ==
    IF names = <<>> THEN ingredients
    ELSE AppendNew(IF is_valid_ingredient_name(names[1]) /\ names[1] \notin ToSet(ingredients)
                   THEN Append(ingredients, names[1]) ELSE ingredients,
                   Tail(names))

\* the cleaned texts of a list of elements
CleanAll(texts) == [i \in 1..Len(texts) |-> clean_ingredient_name(Strip(texts[i]))]

RECURSIVE Flatten(_)
Flatten(lists) == IF lists = <<>> THEN <<>> ELSE lists[1] \o Flatten(Tail(lists))

\* ingredient links with the given texts, inside and outside a container
InContainer(texts) == [i \in 1..Len(texts) |-> [text |-> texts[i], in_container |-> TRUE]]
Outside(texts) == [i \in 1..Len(texts) |-> [text |-> texts[i], in_container |-> FALSE]]

\* Method 1 (lines 69-77): the ingredient links inside the containers
ContainerNames(soup) ==
    CleanAll([i \in 1..Len(SelectSeq(soup.links, LAMBDA a : a.in_container)) |->
                 SelectSeq(soup.links, LAMBDA a : a.in_container)[i].text])

\* Method 2 (lines 79-85): every ingredient link of the page
LinkNames(soup) == CleanAll([i \in 1..Len(soup.links) |-> soup.links[i].text])

\* Method 3 (lines 87-97): the items of the lists of more than 3 items
ListNames(soup) == CleanAll(Flatten(SelectSeq(soup.lists, LAMBDA items : Len(items) > 3)))

\* re.compile(r'aqua|water.*,.*', re.I).search(text)
MatchesWaterList(text) ==
    \/ Contains(Lower(text), "aqua")
    \/ \E p \in 1..(Len(text) - 4) :
          /\ SubSeq(Lower(text), p, p + 4) = "water"
          /\ \E q \in (p + 5)..Len(text) :
                /\ Char(text, q) = ","
                /\ \A k \in (p + 5)..q : Char(text, k) # "\n"

\* the names of one text block (lines 103-105)
BlockNames(text) ==
    IF Len(Strip(text)) > 50 /\ Contains(Strip(text), ",")
    THEN parse_ingredient_text_improved(Strip(text)) ELSE <<>>

RECURSIVE BlocksNames(_)
BlocksNames(blocks) ==
    IF blocks = <<>> THEN <<>> ELSE BlockNames(blocks[1]) \o BlocksNames(Tail(blocks))

\* Method 4 (lines 99-108): the names parsed from the matching text blocks
TextNames(soup) == BlocksNames(SelectSeq(soup.text_blocks, MatchesWaterList))

\* a later method that runs however many names were collected
RunRegardless(ingredients, names) == AppendNew(ingredients, names)

\* a later method runs only while fewer than 3 names were collected
IfFewerThan3(ingredients, names) ==
    IF Len(ingredients) < 3 THEN AppendNew(ingredients, names) ELSE ingredients

\* the most names a page gives (line 112)
MaxIngredients == 20

\* the mutation: whatever was collected is returned
ReturnCollected(ingredients) == Take(ingredients, MaxIngredients)

\* lines 110-119: more than 2 names are returned, at most 20 of them
ReturnExtracted(ingredients) ==
    IF Len(ingredients) > 2 THEN Take(ingredients, MaxIngredients) ELSE <<>>

\* the four methods on a parsed page (lines 66-114)
ExtractFromSoup(soup) ==
    ReturnExtracted(
        IfFewerThan3(
            IfFewerThan3(
                IfFewerThan3(AppendNew(<<>>, ContainerNames(soup)), LinkNames(soup)),
                ListNames(soup)),
            TextNames(soup)))

\* _extract_from_product_page: what it returns, and whether it raised
extract_from_product_page(response) ==
    [raised |-> FALSE,
     ingredients |-> IF ~response.raises /\ response.status_code = 200
                     THEN ExtractFromSoup(response.soup) ELSE <<>>]

-----------------------------------------------------------------------------
(* NameValidator: analyzer.py, _is_valid_ingredient *)

invalid_patterns ==
    {"click here", "know more", "read more", "see more", "view all", "show more",
     "expand", "collapse", "full list", "ingredients:", "http", "www.", ".com",
     "in this case", "such as", "if this sentence", "another peptide", "for example",
     "as mentioned", "see above", "note that", "please note", "important",
     "disclaimer", "warning", "caution", "may contain", "does not contain",
     "free from", "without", "includes", "contains", "made with", "formulated with"}

sentence_indicators ==
    {" is ", " are ", " was ", " were ", " the ", " and ", " or ", " but ",
     " if ", " when ", " where ", " what ", " how ", " why ", " because ",
     " since ", " although ", " however ", " therefore ", " moreover "}

invalid_starts == {"and ", "or ", "but ", "if ", "when ", "the ", "a ", "an "}
invalid_ends == {" and", " or", " but", " if", " when", " the", " is", " are"}

\* the whole of s matches [a-zA-Z][a-zA-Z0-9\s\-\(\)\.]*[a-zA-Z0-9\)]
IsIngredientPattern(s) ==
    /\ Len(s) >= 2
    /\ IsAlpha(Char(s, 1))
    /\ \A i \in 2..(Len(s) - 1) :
          \/ IsAlnum(Char(s, i))
          \/ IsSpace(Char(s, i))
          \/ Char(s, i) \in {"-", "(", ")", "."}
    /\ IsAlnum(Char(s, Len(s))) \/ Char(s, Len(s)) = ")"

\* re.match(r'^[a-zA-Z][a-zA-Z0-9\s\-\(\)\.]*[a-zA-Z0-9\)]$', s): the $ also
\* matches before a newline that ends s
MatchesIngredientPattern(s) ==
    \/ IsIngredientPattern(s)
    \/ /\ EndsWith(s, "\n")
       /\ IsIngredientPattern(SubSeq(s, 1, Len(s) - 1))

\* _is_valid_ingredient without the tests of the first and the last word
ValidWithoutStopWords(ingredient_name, ingredient_lower) ==
    /\ ~ContainsAny(ingredient_lower, invalid_patterns)
    /\ ~ContainsAny(ingredient_lower, sentence_indicators)
    /\ Len(ingredient_name) >= 3 /\ Len(ingredient_name) <= 80
    /\ CountChar(ingredient_name, "(") = CountChar(ingredient_name, ")")
    /\ CountChar(ingredient_name, "[") = CountChar(ingredient_name, "]")
    /\ 10 * Cardinality({i \in 1..Len(ingredient_name) : IsAlnum(Char(ingredient_name, i))})
           >= 4 * Len(ingredient_name)
    /\ MatchesIngredientPattern(ingredient_name)

\* _is_valid_ingredient on the name and on name.lower().strip()
ValidWithLowered(ingredient_name, ingredient_lower) ==
    /\ ~ContainsAny(ingredient_lower, invalid_patterns)
    /\ ~ContainsAny(ingredient_lower, sentence_indicators)
    /\ Len(ingredient_name) >= 3 /\ Len(ingredient_name) <= 80
    /\ CountChar(ingredient_name, "(") = CountChar(ingredient_name, ")")
    /\ CountChar(ingredient_name, "[") = CountChar(ingredient_name, "]")
    /\ 10 * Cardinality({i \in 1..Len(ingredient_name) : IsAlnum(Char(ingredient_name, i))})
           >= 4 * Len(ingredient_name)
    /\ \A start \in invalid_starts : ~StartsWith(ingredient_lower, start)
    /\ \A end \in invalid_ends : ~EndsWith(ingredient_lower, end)
    /\ MatchesIngredientPattern(ingredient_name)

\* _is_valid_ingredient
is_valid_ingredient(ingredient_name) ==
    /\ ingredient_name # ""
    /\ ValidWithLowered(ingredient_name, Strip(Lower(ingredient_name)))

-----------------------------------------------------------------------------
(* ProductDatabase: database.py.  The collection is the sequence of the      *)
(* stored metadatas, in the order in which they were added; a metadata keeps *)
(* the ingredient list as one comma-joined string and the score in           *)
(* hundredths.                                                               *)

\* the collection without the record of an id
Delete(collection, id) == SelectSeq(collection, LAMBDA m : m.name # id)

\* the stored string taken for one name
Unsplit(joined) == IF joined # "" THEN <<joined>> ELSE <<>>

\* metadata['ingredients'].split(',') if metadata['ingredients'] else []
SplitIngredients(joined) == IF joined # "" THEN Split(joined, ",") ELSE <<>>

\* a stored metadata as get_product and find_alternatives hand it out
Product(metadata) ==
    [found |-> TRUE,
     name |-> metadata.name,
     ingredients |-> SplitIngredients(metadata.ingredients),
     safety_score |-> metadata.safety_score,
     category |-> metadata.category]

\* a lookup that finds nothing
get_nothing(collection, name, fails) == [found |-> FALSE]

\* the product's record in the cache with its first ingredient only
get_first_ingredient(collection, name, fails) ==
    IF fails \/ SelectSeq(collection, LAMBDA m : m.name = name) = <<>>
    THEN [found |-> FALSE]
    ELSE [Product(SelectSeq(collection, LAMBDA m : m.name = name)[1])
              EXCEPT !.ingredients = Take(@, 1)]

\* get_product: the product stored under the name; None when there is none
\* and when the collection raises
get_product(collection, name, fails) ==
    IF fails \/ SelectSeq(collection, LAMBDA m : m.name = name) = <<>>
    THEN [found |-> FALSE]
    ELSE Product(SelectSeq(collection, LAMBDA m : m.name = name)[1])

\* the names joined with a comma and a space
JoinSpaced(ingredients) == JoinWith(ingredients, ", ")

\* ','.join(product_data['ingredients']), lines 31-32
JoinIngredients(ingredients) == JoinWith(ingredients, ",")

\* add_product without the delete of lines 36-40
add_product_appending(collection, product_data, fault) ==
    [raised |-> fault # "none",
     collection |->
         IF fault # "none" THEN collection
         ELSE Append(collection,
                     [name |-> product_data.name,
                      ingredients |-> JoinWith(product_data.ingredients, ","),
                      safety_score |-> product_data.safety_score,
                      category |-> product_data.category])]

\* where add_product can raise: in model.encode, before the collection is
\* touched, or in collection.add, after the old record was deleted
WriteFaults == {"none", "encode", "add"}

\* add_product: the collection it leaves, and whether it raised
add_product(collection, product_data, fault) ==
    [raised |-> fault # "none",
     collection |->
         IF fault = "encode" THEN collection
         ELSE IF fault = "add" THEN Delete(collection, product_data.name)
         ELSE Append(Delete(collection, product_data.name),
                     [name |-> product_data.name,
                      ingredients |-> JoinIngredients(product_data.ingredients),
                      safety_score |-> product_data.safety_score,
                      category |-> product_data.category])]

\* find_alternatives without the test of exclude_product
find_alternatives_including(collection, total, count, exclude_product) ==
    Take([i \in 1..Len(SelectSeq(collection,
                           LAMBDA m : m.safety_score * count <= 100 * total)) |->
             Product(SelectSeq(collection,
                         LAMBDA m : m.safety_score * count <= 100 * total)[i])],
         3)

\* find_alternatives with the threshold total / count: the first 3 products,
\* other than the excluded one, whose stored score is not above the threshold
find_alternatives(collection, total, count, exclude_product) ==
    Take([i \in 1..Len(SelectSeq(collection,
                           LAMBDA m : m.name # exclude_product
                                      /\ m.safety_score * count <= 100 * total)) |->
             Product(SelectSeq(collection,
                         LAMBDA m : m.name # exclude_product
                                    /\ m.safety_score * count <= 100 * total)[i])],
         3)

-----------------------------------------------------------------------------
(* SimpleProductDatabase: simple_database.py.  products is the dict, kept as *)
(* the sequence of its items [key, data] in the order of insertion           *)

\* SimpleProductDatabase.add_product: products[name.lower()] = product_data.copy()
simple_add_product(products, product_data) ==
    IF \E i \in 1..Len(products) : products[i].key = Lower(product_data.name)
    THEN [i \in 1..Len(products) |->
             IF products[i].key = Lower(product_data.name)
             THEN [key |-> products[i].key, data |-> product_data]
             ELSE products[i]]
    ELSE Append(products, [key |-> Lower(product_data.name), data |-> product_data])

\* SimpleProductDatabase.get_product: products.get(product_name.lower())
simple_get_product(products, name) ==
    IF \E i \in 1..Len(products) : products[i].key = Lower(name)
    THEN [found |-> TRUE,
          name |-> SelectSeq(products, LAMBDA p : p.key = Lower(name))[1].data.name,
          ingredients |->
              SelectSeq(products, LAMBDA p : p.key = Lower(name))[1].data.ingredients,
          safety_score |->
              SelectSeq(products, LAMBDA p : p.key = Lower(name))[1].data.safety_score,
          category |->
              SelectSeq(products, LAMBDA p : p.key = Lower(name))[1].data.category]
    ELSE [found |-> FALSE]

-----------------------------------------------------------------------------
(* GeminiClient: gemini_client.py, the two calls the cascade makes *)

\* str(safety_score) of the mean total / count.  The lists analysed in this
\* model have 1 or 2 names, so the mean is k or k.5; the last branch writes
\* the fraction and is not reached
ScoreText(total, count) ==
    IF total % count = 0 THEN Decimal(total \div count)
    ELSE IF (10 * total) % count = 0
         THEN Decimal(total \div count) \o "." \o Decimal(((10 * total) \div count) % 10)
    ELSE Decimal(total) \o "/" \o Decimal(count)

\* generate_product_summary; fails: generate_content raises
generate_product_summary(model, name, total, count, fails) ==
    IF model = "none"
    THEN "Analysis complete for " \o name \o ". Overall safety score: "
             \o ScoreText(total, count)
    ELSE IF fails
    THEN "Product analyzed: " \o name \o ". Safety score: " \o ScoreText(total, count)
             \o ". Consider ingredients carefully."
    ELSE "Recommended for daily use."

\* suggest_alternatives returning the suggestions whatever happened
suggest_regardless(model, fails) ==
    <<[name |-> "Gentle Hydrating Cleanser", source |-> "gemini"]>>

\* suggest_alternatives; fails: generate_content raises
suggest_alternatives(model, fails) ==
    IF model = "none" \/ fails THEN <<>>
    ELSE <<[name |-> "Gentle Hydrating Cleanser", source |-> "gemini"]>>

-----------------------------------------------------------------------------
(* ResolutionCascade: analyzer.py, analyze_product *)

\* a value passed as product_name: a str with its text, or another object
\* with its truth value
Str(text) == [is_str |-> TRUE, truthy |-> text # "", text |-> text]
NonStr(truthy) == [is_str |-> FALSE, truthy |-> truthy, text |-> ""]

\* input_error measuring the name as passed, not stripped
input_error_unstripped(arg) ==
    IF ~arg.truthy \/ ~arg.is_str THEN "Product name must be a non-empty string"
    ELSE IF Len(arg.text) < 2 THEN "Product name too short"
    ELSE ""

\* lines 31-36: the message of the ValueError raised, "" when none is
input_error(arg) ==
    IF ~arg.truthy \/ ~arg.is_str THEN "Product name must be a non-empty string"
    ELSE IF Len(Strip(arg.text)) < 2 THEN "Product name too short"
    ELSE ""

\* _create_fallback_analysis leaving the error message out of the summary
create_fallback_without_reason(name, error_message) ==
    [kind |-> "fallback",
     reason |-> error_message,
     product_name |-> name,
     ingredients_analysis |-> <<>>,
     overall_safety_score |-> 500,
     risk_summary |-> "Unable to complete analysis",
     allergen_warnings |-> <<>>,
     alternatives |-> <<>>]

\* _create_fallback_analysis
create_fallback_analysis(name, error_message) ==
    [kind |-> "fallback",
     reason |-> error_message,
     product_name |-> name,
     ingredients_analysis |-> <<>>,
     overall_safety_score |-> 500,
     risk_summary |-> "Unable to complete analysis: " \o error_message,
     allergen_warnings |-> <<>>,
     alternatives |-> <<>>]

\* an outer handler that raises again
critical_error_reraised(name, e) == [kind |-> "raised", error |-> "Exception", message |-> e]

\* lines 190-192: the handler of the outer try
critical_error(name, e) == create_fallback_analysis(name, "Analysis failed: " \o e)

\* line 68 accepting the empty list
has_any_list(list) == TRUE

\* line 68: the list is a non-empty list
has_ingredient_data(list) == list # <<>>

\* an Ingredient named after the function found for it
IngredientByFunction(ingredient_data, ingredient_name) ==
    [name |-> ingredient_data.function,
     safety_score |-> ingredient_data.safety_score,
     risk_level |-> ingredient_data.risk_level,
     allergens |-> ingredient_data.allergens,
     benefits |-> ingredient_data.benefits,
     risks |-> ingredient_data.risks,
     skin_types |-> ingredient_data.skin_types]

\* Ingredient(...), lines 90-100
Ingredient(ingredient_data, ingredient_name) ==
    [name |-> ingredient_name,
     safety_score |-> ingredient_data.safety_score,
     risk_level |-> ingredient_data.risk_level,
     allergens |-> ingredient_data.allergens,
     benefits |-> ingredient_data.benefits,
     risks |-> ingredient_data.risks,
     skin_types |-> ingredient_data.skin_types]

RECURSIVE Sum(_)
Sum(scores) == IF scores = <<>> THEN 0 ELSE scores[1] + Sum(Tail(scores))

\* the safety_scores list of analyze_product
SafetyScores(analysis) == [i \in 1..Len(analysis) |-> analysis[i].safety_score]

\* the mean cut off after two decimals
TruncatedMean(total, count) == (100 * total) \div count

\* round(total / count, 2), in hundredths (no tie occurs below 8 scores)
RoundedMean(total, count) == (200 * total + count) \div (2 * count)

\* lines 181-188 raising, so that the outer handler answers
ProductAnalysisRejected(name, analysis, summary, warnings, all_alternatives) ==
    critical_error(name, "validation error for ProductAnalysis")

\* lines 181-188
ProductAnalysis(name, analysis, summary, warnings, all_alternatives) ==
    [kind |-> "done",
     reason |-> "",
     product_name |-> name,
     ingredients_analysis |-> analysis,
     overall_safety_score |-> RoundedMean(Sum(SafetyScores(analysis)), Len(analysis)),
     risk_summary |-> summary,
     allergen_warnings |-> SetToSeq(ToSet(warnings)),
     alternatives |-> all_alternatives]

\* the kind of answer a fetch got
FetchEvent(response) ==
    IF response.raises THEN "fetch_raised"
    ELSE IF response.status_code = 200 THEN "fetch_200" ELSE "fetch_non200"

\* _scrape_incidecoder tries the first 3 product links
MaxProductLinks == 3

\* _scrape_incidecoder, lines 32-45: the number of product links to try
product_links(response) ==
    IF ~response.raises /\ response.status_code = 200
    THEN Min(response.product_links, MaxProductLinks) ELSE 0

-----------------------------------------------------------------------------
(* The state before any request, and the state of the variables a            *)
(* specification does not use                                                *)

NoProduct == [found |-> FALSE]
NoResult == [kind |-> "none"]
NoCache == [present |-> FALSE]

CascadeIdle ==
    /\ db = <<>>
    /\ gemini_model = "none"
    /\ ingredient_ratings_cache = NoCache
    /\ pc = "idle"
    /\ product_name = ""
    /\ cached_product = NoProduct
    /\ links = 0
    /\ ingredients_list = <<>>
    /\ valid_ingredients = <<>>
    /\ idx = 0
    /\ ingredients_analysis = <<>>
    /\ allergen_warnings = <<>>
    /\ risk_summary = ""
    /\ alternatives = <<>>
    /\ result = NoResult
    /\ nRequests = 0
    /\ trace = {}

NoCall ==
    /\ stage = "none"
    /\ call = [fn |-> "none"]
    /\ ret = [fn |-> "none"]

-----------------------------------------------------------------------------
(* Spec: the cascade.  The endpoint is an async function that calls the      *)
(* synchronous analyze_product, so the one shared analyzer serves one        *)
(* request after another; the product cache lives as long as the process.    *)

\* the ratings table of an ingredient page; a rating below 0 (an overall
\* rating "") leaves the row out
RatingTable(irritancy, comedogenicity, overall) ==
    (IF irritancy >= 0 THEN << <<"Irritancy", Char(DigitChars, irritancy + 1)>> >> ELSE <<>>)
    \o (IF comedogenicity >= 0
        THEN << <<"Comedogenicity", Char(DigitChars, comedogenicity + 1)>> >> ELSE <<>>)
    \o (IF overall # "" THEN << <<"Overall rating", overall>> >> ELSE <<>>)

\* how many requests a behaviour serves
MaxRequests == 2

RequestArguments ==
    {Str("Cerave"), Str(" Nivea "), Str(""), Str("  "), Str("A"), Str(" A "),
     NonStr(FALSE), NonStr(TRUE)}

\* the answers of the product search: a failure, an error page, and result
\* pages with 0, 1 and 4 product links
SearchResponses ==
    {[raises |-> TRUE, status_code |-> 0, product_links |-> 0],
     [raises |-> FALSE, status_code |-> 503, product_links |-> 1]}
    \cup {[raises |-> FALSE, status_code |-> 200, product_links |-> n] : n \in {0, 1, 4}}

LinksPage(texts) ==
    [links |-> InContainer(texts), lists |-> <<>>, text_blocks |-> <<>>, tables |-> <<>>]

\* a product page that also holds the site's table of its ingredients, one
\* row per name: name, what-it-does, irritancy and comedogenicity, rating
RatedPage(texts, rows) ==
    [links |-> InContainer(texts), lists |-> <<>>, text_blocks |-> <<>>,
     tables |-> << << <<"Ingredient name", "what-it-does", "irr., com.", "ID-Rating">> >>
                   \o rows >>]

\* the product pages: three names of which the validator keeps two, with the
\* table of their ratings; three names of which it keeps none; and a page
\* with two names only
CascadeProductPages ==
    {RatedPage(<<"Aqua", "Vitamin C+", "Parfum">>,
               << <<"Aqua", "solvent", "", "">>,
                  <<"Vitamin C+", "antioxidant", "", "Goodie">>,
                  <<"Parfum", "perfuming", "3, 0", "Icky">> >>),
     LinksPage(<<"Vitamin C+", "Omega 3/6", "Aloe & Oat">>),
     LinksPage(<<"Aqua", "Glycerin">>)}

CascadePageResponses ==
    {FetchRaises, FetchStatus(404)} \cup {FetchPage(soup) : soup \in CascadeProductPages}

\* the answers to the fetch of an ingredient's page
CascadeIngredientResponses ==
    {FetchStatus(404),
     FetchPage([function_elems |-> <<"Humectant">>,
                description_elems |-> <<>>,
                body |-> "Known allergen and irritant.",
                tables |-> <<RatingTable(3, 0 - 1, "")>>])}

Init ==
    /\ db = <<>>
    /\ gemini_model \in {"none", "gemini-2.0-flash-exp"}
    /\ ingredient_ratings_cache = NoCache
    /\ pc = "idle"
    /\ product_name = ""
    /\ cached_product = NoProduct
    /\ links = 0
    /\ ingredients_list = <<>>
    /\ valid_ingredients = <<>>
    /\ idx = 0
    /\ ingredients_analysis = <<>>
    /\ allergen_warnings = <<>>
    /\ risk_summary = ""
    /\ alternatives = <<>>
    /\ result = NoResult
    /\ nRequests = 0
    /\ trace = {}
    /\ NoCall

\* analyze_product is called: lines 31-36
Request ==
    /\ pc = "idle"
    /\ stage = "none"
    /\ nRequests < MaxRequests
    /\ \E arg \in RequestArguments :
          /\ call' = [fn |-> "analyze_product", product_name |-> arg]
          /\ IF input_error(arg) # ""
             THEN /\ result' = [kind |-> "raised", error |-> "ValueError",
                                message |-> input_error(arg)]
                  /\ pc' = "returned"
                  /\ UNCHANGED product_name
             ELSE /\ product_name' = Strip(arg.text)
                  /\ pc' = "lookup"
                  /\ UNCHANGED result
    /\ nRequests' = nRequests + 1
    /\ UNCHANGED <<db, gemini_model, ingredient_ratings_cache, cached_product, links,
                   ingredients_list, valid_ingredients, idx, ingredients_analysis,
                   allergen_warnings, risk_summary, alternatives, trace, stage, ret>>

\* lines 40-51: the product-cache lookup; on a hit the stored list is taken
\* and the scraper's ingredient_ratings_cache attribute is deleted
Lookup ==
    /\ pc = "lookup"
    /\ \E fails \in BOOLEAN :
          /\ cached_product' = get_product(db, product_name, fails)
          /\ IF get_product(db, product_name, fails).found
             THEN /\ ingredients_list' = get_product(db, product_name, fails).ingredients
                  /\ ingredient_ratings_cache' = NoCache
                  /\ pc' = "validate"
             ELSE /\ pc' = "search"
                  /\ UNCHANGED <<ingredients_list, ingredient_ratings_cache>>
          /\ trace' = trace \cup {"lookup"}
                 \cup (IF fails THEN {"lookup_raised"} ELSE {})
    /\ UNCHANGED <<db, gemini_model, product_name, links, valid_ingredients, idx,
                   ingredients_analysis, allergen_warnings, risk_summary, alternatives,
                   result, nRequests, callVars>>

\* _scrape_incidecoder, lines 28-45: the product search
Search ==
    /\ pc = "search"
    /\ \E response \in SearchResponses :
          /\ trace' = trace \cup {FetchEvent(response)}
          /\ links' = product_links(response)
          /\ pc' = IF product_links(response) > 0 THEN "page" ELSE "validate"
    /\ ingredients_list' = <<>>
    /\ UNCHANGED <<db, gemini_model, ingredient_ratings_cache, product_name,
                   cached_product, valid_ingredients, idx, ingredients_analysis,
                   allergen_warnings, risk_summary, alternatives, result, nRequests,
                   callVars>>

\* the attribute as it would be were the page's rating table stored in it
ratings_cache_from_table(cache, response) ==
    IF FetchEvent(response) = "fetch_200" /\ response.soup.tables # <<>>
    THEN [present |-> TRUE,
          data |-> [name \in {response.soup.tables[1][r][1] :
                                 r \in 2..Len(response.soup.tables[1])} |->
                       [safety_score |-> 3, function |-> "", irritancy |-> 0,
                        comedogenicity |-> 0, source |-> "incidecoder_table"]]]
    ELSE cache

\* _scrape_incidecoder and _extract_from_product_page assign nothing to the
\* scraper's ingredient_ratings_cache: the attribute stays as it was
ratings_cache_after_page(cache, response) == cache

\* _scrape_incidecoder, lines 45-50: the next product link is tried; the
\* first page that gives ingredients ends the search.  The trace notes a
\* page that held a rating table, which _extract_from_product_page does not
\* read
ProductPage ==
    /\ pc = "page"
    /\ \E response \in CascadePageResponses :
          /\ trace' = trace \cup {FetchEvent(response)}
                 \cup (IF FetchEvent(response) = "fetch_200" /\ response.soup.tables # <<>>
                       THEN {"rating_table"} ELSE {})
          /\ ingredients_list' = extract_from_product_page(response).ingredients
          /\ ingredient_ratings_cache' =
                 ratings_cache_after_page(ingredient_ratings_cache, response)
          /\ IF extract_from_product_page(response).ingredients # <<>>
             THEN links' = 0 /\ pc' = "validate"
             ELSE links' = links - 1 /\ pc' = IF links > 1 THEN "page" ELSE "validate"
    /\ UNCHANGED <<db, gemini_model, product_name,
                   cached_product, valid_ingredients, idx, ingredients_analysis,
                   allergen_warnings, risk_summary, alternatives, result, nRequests,
                   callVars>>

\* lines 68-79: the list is checked and filtered
Validate ==
    /\ pc = "validate"
    /\ IF ~has_ingredient_data(ingredients_list)
       THEN /\ result' = create_fallback_analysis(
                             product_name, "No ingredient data available for analysis")
            /\ pc' = "returned"
            /\ UNCHANGED <<valid_ingredients, idx>>
       ELSE IF SelectSeq(ingredients_list, is_valid_ingredient) = <<>>
       THEN /\ result' = create_fallback_analysis(
                             product_name, "No valid ingredients found after filtering")
            /\ pc' = "returned"
            /\ UNCHANGED <<valid_ingredients, idx>>
       ELSE /\ valid_ingredients' = SelectSeq(ingredients_list, is_valid_ingredient)
            /\ idx' = 1
            /\ pc' = "resolve"
            /\ UNCHANGED result
    /\ UNCHANGED <<db, gemini_model, ingredient_ratings_cache, product_name,
                   cached_product, links, ingredients_list, ingredients_analysis,
                   allergen_warnings, risk_summary, alternatives, nRequests, trace,
                   callVars>>

\* lines 82-110: one pass of the loop.  get_comprehensive_ingredient_data
\* either raises, and the ingredient is skipped, or gives the record
ResolveIngredient ==
    /\ pc = "resolve"
    /\ \E raises \in BOOLEAN, response \in CascadeIngredientResponses :
          IF raises
          THEN UNCHANGED <<ingredients_analysis, allergen_warnings, trace>>
          ELSE /\ ingredients_analysis' =
                      Append(ingredients_analysis,
                             Ingredient(get_comprehensive_ingredient_data(
                                            ingredient_ratings_cache,
                                            valid_ingredients[idx], response, 0),
                                        valid_ingredients[idx]))
               /\ allergen_warnings' =
                      allergen_warnings
                          \o get_comprehensive_ingredient_data(
                                 ingredient_ratings_cache, valid_ingredients[idx],
                                 response, 0).allergens
               /\ trace' = trace \cup {FetchEvent(response)}
    /\ idx' = idx + 1
    /\ pc' = IF idx < Len(valid_ingredients) THEN "resolve" ELSE "aggregate"
    /\ UNCHANGED <<db, gemini_model, ingredient_ratings_cache, product_name,
                   cached_product, links, ingredients_list, valid_ingredients,
                   risk_summary, alternatives, result, nRequests, callVars>>

\* lines 123-128 with the scraped list in place of the filtered one
scraped_product_data(name, scraped, valid, score) ==
    [name |-> name, ingredients |-> scraped, safety_score |-> score,
     category |-> "skincare"]

\* lines 123-128: the record handed to add_product
new_product_data(name, scraped, valid, score) ==
    [name |-> name, ingredients |-> valid, safety_score |-> score,
     category |-> "skincare"]

\* lines 113-131: nothing resolved is a fallback; otherwise the product is
\* stored unless it came from the cache, and a failing write is ignored
Aggregate ==
    /\ pc = "aggregate"
    /\ IF ingredients_analysis = <<>>
       THEN /\ result' = create_fallback_analysis(
                             product_name, "Unable to analyze any ingredients successfully")
            /\ pc' = "returned"
            /\ UNCHANGED <<db, trace>>
       ELSE /\ pc' = "summarise"
            /\ UNCHANGED result
            /\ IF cached_product.found
               THEN UNCHANGED <<db, trace>>
               ELSE \E fault \in WriteFaults :
                       /\ trace' = trace \cup {"write"}
                              \cup (IF fault # "none" THEN {"write_raised"} ELSE {})
                       /\ db' = add_product(
                                    db,
                                    new_product_data(
                                        product_name, ingredients_list, valid_ingredients,
                                        RoundedMean(Sum(SafetyScores(ingredients_analysis)),
                                                    Len(ingredients_analysis))),
                                    fault).collection
    /\ UNCHANGED <<gemini_model, ingredient_ratings_cache, product_name, cached_product,
                   links, ingredients_list, valid_ingredients, idx, ingredients_analysis,
                   allergen_warnings, risk_summary, alternatives, nRequests, callVars>>

\* lines 134-188: the summary, the alternatives, and the analysis returned
Summarise ==
    /\ pc = "summarise"
    /\ \E summary_fails, alternatives_fail, db_fails \in BOOLEAN :
          /\ risk_summary' =
                 generate_product_summary(
                     gemini_model, product_name, Sum(SafetyScores(ingredients_analysis)),
                     Len(ingredients_analysis), summary_fails)
          /\ alternatives' =
                 suggest_alternatives(gemini_model, alternatives_fail)
                     \o (IF db_fails THEN <<>>
                         ELSE Take(find_alternatives(
                                       db, Sum(SafetyScores(ingredients_analysis)),
                                       Len(ingredients_analysis), product_name), 2))
          /\ trace' = trace \cup {"summary", "alternatives"}
                 \cup (IF gemini_model # "none" /\ summary_fails
                       THEN {"summary_raised"} ELSE {})
                 \cup (IF gemini_model # "none" /\ alternatives_fail
                       THEN {"alternatives_raised"} ELSE {})
                 \cup (IF db_fails THEN {"find_alternatives_raised"} ELSE {})
    /\ result' = ProductAnalysis(product_name, ingredients_analysis, risk_summary',
                                 allergen_warnings, alternatives')
    /\ pc' = "returned"
    /\ UNCHANGED <<db, gemini_model, ingredient_ratings_cache, product_name,
                   cached_product, links, ingredients_list, valid_ingredients, idx,
                   ingredients_analysis, allergen_warnings, nRequests, callVars>>

\* lines 190-192: a statement of the outer try that no inner handler guards
\* raises; these are the prints of the product name at lines 47, 53, 69, 76,
\* 79 and 114, which raise when the console cannot encode the name
UnexpectedException ==
    /\ \/ pc \in {"search", "validate"}
       \/ pc = "aggregate" /\ ingredients_analysis = <<>>
    /\ result' = critical_error(product_name, "'ascii' codec can't encode character")
    /\ pc' = "returned"
    /\ UNCHANGED <<db, gemini_model, ingredient_ratings_cache, product_name,
                   cached_product, links, ingredients_list, valid_ingredients, idx,
                   ingredients_analysis, allergen_warnings, risk_summary, alternatives,
                   nRequests, trace, callVars>>

\* the caller has the outcome; the analyzer is ready for the next request
Respond ==
    /\ pc = "returned"
    /\ pc' = "idle"
    /\ product_name' = ""
    /\ cached_product' = NoProduct
    /\ links' = 0
    /\ ingredients_list' = <<>>
    /\ valid_ingredients' = <<>>
    /\ idx' = 0
    /\ ingredients_analysis' = <<>>
    /\ allergen_warnings' = <<>>
    /\ risk_summary' = ""
    /\ alternatives' = <<>>
    /\ result' = NoResult
    /\ trace' = {}
    /\ call' = [fn |-> "none"]
    /\ UNCHANGED <<db, gemini_model, ingredient_ratings_cache, nRequests, stage, ret>>

Next ==
    \/ Request
    \/ Lookup
    \/ Search
    \/ ProductPage
    \/ Validate
    \/ ResolveIngredient
    \/ Aggregate
    \/ Summarise
    \/ UnexpectedException
    \/ Respond

Spec == Init /\ [][Next]_vars

\* the request being served, and whether its product name is well formed:
\* a string whose trimmed length is at least 2
Serving == call.fn = "analyze_product"
WellFormed == Serving /\ call.product_name.is_str /\ Len(Strip(call.product_name.text)) >= 2
Returned == pc = "returned"

\* the result is a fallback analysis that embeds its reason
IsFallback(r) ==
    /\ r.kind = "fallback"
    /\ r.ingredients_analysis = <<>>
    /\ r.overall_safety_score = 500
    /\ r.risk_summary # ""
    /\ r.reason # ""
    /\ Contains(r.risk_summary, r.reason)
    /\ r.allergen_warnings = <<>>
    /\ r.alternatives = <<>>

\* the reasons of the four stages at which the cascade falls back
FallbackReasons ==
    {"No ingredient data available for analysis",
     "No valid ingredients found after filtering",
     "Unable to analyze any ingredients successfully",
     "Analysis failed: 'ascii' codec can't encode character"}

\* a request is inside analyze_product
InFlight == pc \notin {"idle", "returned"}

\* how far a request is from its end: every step inside analyze_product
\* lowers it
StepsLeft ==
    CASE pc = "lookup" -> 9 + MaxProductLinks + MaxIngredients
      [] pc = "search" -> 8 + MaxProductLinks + MaxIngredients
      [] pc = "page" -> 7 + links + MaxIngredients
      [] pc = "validate" -> 6 + MaxIngredients
      [] pc = "resolve" -> 4 + Len(valid_ingredients) - idx
      [] pc = "aggregate" -> 2
      [] pc = "summarise" -> 1
      [] OTHER -> 0

\* C1: for a product name of trimmed length at least 2, analyze_product never
\* raises, whatever fails in the lookup, the transport, the extraction, the
\* resolution, the cache write, the summary or the alternatives; a request
\* inside analyze_product is at a step that it can take, and every step brings
\* it nearer to its end, which is Done, a non-empty analysis, or Fallback.
C1_AlwaysAnAnalysis ==
    /\ [](WellFormed =>
            /\ result.kind # "raised"
            /\ Returned =>
                  \/ result.kind = "done" /\ result.ingredients_analysis # <<>>
                  \/ result.kind = "fallback")
    /\ [](InFlight =>
            /\ WellFormed
            /\ pc \in {"lookup", "search", "page", "validate", "resolve", "aggregate",
                       "summarise"}
            /\ pc = "page" => links \in 1..MaxProductLinks
            /\ pc = "resolve" => idx \in 1..Len(valid_ingredients))
    /\ [][InFlight => StepsLeft' < StepsLeft]_vars

\* C1 witness: a request returned Done although the lookup found nothing, an
\* ingredient's page could not be fetched and another ingredient's resolution
\* raised
C1_Witness ==
    /\ WellFormed /\ Returned
    /\ result.kind = "done"
    /\ ~cached_product.found
    /\ "fetch_non200" \in trace
    /\ Len(result.ingredients_analysis) < Len(valid_ingredients)

\* C2: when the product name is empty, not a string, or shorter than 2 after
\* trimming, analyze_product raises an input error instead of returning a
\* fallback, before any product-cache lookup, transport call or cache write.
C2_InputErrorBeforeAnyCall ==
    (Serving /\ ~WellFormed) =>
        /\ Returned
        /\ result.kind = "raised"
        /\ result.error = "ValueError"
        /\ trace = {}

\* C2 witness: the name " A " was refused while the product cache held a record
C2_Witness ==
    /\ Returned
    /\ call = [fn |-> "analyze_product", product_name |-> Str(" A ")]
    /\ result.kind = "raised"
    /\ db # <<>>

\* C3: every Fallback analysis, from whichever stage it is reached, has an
\* empty ingredients_analysis, the score 5.0, a risk_summary that contains
\* the reason text, and empty allergen_warnings and alternatives.
C3_FallbackShape ==
    (Returned /\ result.kind = "fallback") =>
        /\ IsFallback(result)
        /\ result.reason \in FallbackReasons

\* C3 witness: the fallback of the last stage, no ingredient resolved
C3_Witness ==
    /\ Returned
    /\ result.kind = "fallback"
    /\ result.reason = "Unable to analyze any ingredients successfully"
    /\ valid_ingredients # <<>>

\* every answer the transport gave to this request was a non-200 status
AllNon200 == "fetch_200" \notin trace /\ "fetch_raised" \notin trace

\* C4 as stated: when the transport answers every request with a non-200
\* status, analyze_product returns a Fallback analysis (score 5.0, empty
\* ingredients_analysis, risk_summary containing the reason) for any
\* well-formed name and in any state of the product cache.
C4_Non200AlwaysFallback ==
    (WellFormed /\ Returned /\ AllNon200) => IsFallback(result)

\* C4 amended: when the transport answers every request with a non-200 status
\* and the product-cache lookup misses, analyze_product returns a Fallback
\* analysis whose reason is that no ingredient data is available (or the
\* unexpected exception); when the lookup hits, the stored ingredients are
\* resolved by the keyword fallback and the analysis is Done as soon as one
\* of them was resolved.
C4_Non200FallbackOnMiss ==
    (WellFormed /\ Returned /\ AllNon200) =>
        /\ ~cached_product.found =>
              /\ IsFallback(result)
              /\ result.reason \in {"No ingredient data available for analysis",
                                    "Analysis failed: 'ascii' codec can't encode character"}
        /\ (cached_product.found /\ "fetch_non200" \in trace) =>
              /\ result.kind = "done"
              /\ \A i \in 1..Len(result.ingredients_analysis) :
                    result.ingredients_analysis[i] =
                        Ingredient(get_fallback_safety_score_dict(
                                       result.ingredients_analysis[i].name),
                                   result.ingredients_analysis[i].name)

\* C4 witness: the lookup missed, the search was answered with a non-200
\* status, and the request fell back
C4_Witness ==
    /\ WellFormed /\ Returned /\ AllNon200
    /\ "fetch_non200" \in trace
    /\ ~cached_product.found
    /\ result.kind = "fallback"

-----------------------------------------------------------------------------
(* SpecRatings: one call of the rating converter or of the skin-type table,  *)
(* on every pair of raw ratings and every overall rating                     *)

RatingCalls ==
    [fn : {"convert", "skin_types"}, irritancy : 0..MaxRating,
     comedogenicity : 0..MaxRating, overall_rating : OverallRatings]

InitRatings ==
    /\ CascadeIdle
    /\ stage = "call"
    /\ call \in RatingCalls
    /\ ret = [fn |-> "none"]

\* a table row's ratings converted to the safety score and its risk level
ConvertRating ==
    /\ stage = "call"
    /\ call.fn = "convert"
    /\ LET safety_score == convert_incidecoder_to_safety_score(
                               call.irritancy, call.comedogenicity, call.overall_rating, "")
       IN  ret' = [fn |-> "convert", safety_score |-> safety_score,
                   risk_level |-> get_risk_level_from_score(safety_score)]
    /\ stage' = "out"
    /\ UNCHANGED <<call, cascadeVars>>

\* a table row's ratings converted to the suitable skin types
SkinTypes ==
    /\ stage = "call"
    /\ call.fn = "skin_types"
    /\ ret' = [fn |-> "skin_types",
               skin_types |-> get_skin_types_from_ratings(call.comedogenicity, call.irritancy)]
    /\ stage' = "out"
    /\ UNCHANGED <<call, cascadeVars>>

NextRatings == ConvertRating \/ SkinTypes

SpecRatings == InitRatings /\ [][NextRatings]_vars

\* the adjustment the converter is stated to make for each overall tier
TierAdjustment(tier) ==
    CASE tier = "Superstar" -> 0 - 2
      [] tier = "Goodie" -> 0 - 1
      [] tier = "Icky" -> 2
      [] tier = "Unknown" -> 0

Tiers == {"Superstar", "Goodie", "Icky", "Unknown"}

\* C7: for all irritancy and comedogenicity in 0..5 and each overall tier the
\* converter returns min(10, max(0, max(2*irritancy, 2*comedogenicity) + adj)),
\* adj = -2 Superstar, -1 Goodie, +2 Icky, 0 Unknown; the result is in 0..10 and
\* does not decrease when irritancy or comedogenicity is raised; irritancy 4,
\* comedogenicity 1, Icky gives 10, risk level High.
C7_ConverterFormula ==
    (stage = "out" /\ call.fn = "convert" /\ call.overall_rating \in Tiers) =>
        LET i == call.irritancy
            c == call.comedogenicity
            t == call.overall_rating
        IN  /\ ret.safety_score = Min(10, Max(0, Max(2 * i, 2 * c) + TierAdjustment(t)))
            /\ ret.safety_score \in 0..MaxScore
            /\ \A i2 \in i..MaxRating :
                   convert_incidecoder_to_safety_score(i2, c, t, "") >= ret.safety_score
            /\ \A c2 \in c..MaxRating :
                   convert_incidecoder_to_safety_score(i, c2, t, "") >= ret.safety_score
            /\ (i = 4 /\ c = 1 /\ t = "Icky") =>
                   (ret.safety_score = 10 /\ ret.risk_level = "High")

\* C7 witness: the converter has been applied to irritancy 4, comedogenicity 1, Icky
C7_Witness ==
    /\ stage = "out"
    /\ call.fn = "convert"
    /\ call.irritancy = 4 /\ call.comedogenicity = 1 /\ call.overall_rating = "Icky"
    /\ ret.safety_score = 10

\* the skin-type table as stated: the comedogenicity band picks the candidates,
\* the irritancy band restricts them
StatedSkinTypes(comedogenicity, irritancy) ==
    LET candidates == IF comedogenicity >= 4 THEN {"dry"}
                      ELSE IF comedogenicity = 3 THEN {"normal", "dry"}
                      ELSE IF comedogenicity >= 1 THEN {"normal", "combination"}
                      ELSE {"all"}
    IN  IF irritancy >= 4
        THEN (IF candidates \ {"sensitive"} = {} THEN {"normal"}
              ELSE candidates \ {"sensitive"})
        ELSE IF irritancy = 3
        THEN (IF candidates = {"all"} THEN {"normal", "oily", "combination"}
              ELSE candidates \ {"sensitive", "all"})
        ELSE IF irritancy = 0 /\ comedogenicity = 0 THEN {"all", "sensitive"}
        ELSE candidates

\* C8: for all comedogenicity and irritancy in 0..5 the skin-type set equals the
\* stated table (in particular irritancy 3 on the candidate set {all} gives
\* {normal, oily, combination}), and it is never empty.
C8_SkinTypeTable ==
    (stage = "out" /\ call.fn = "skin_types") =>
        /\ ToSet(ret.skin_types) = StatedSkinTypes(call.comedogenicity, call.irritancy)
        /\ ret.skin_types # <<>>

SkinTypeNames == {"dry", "normal", "oily", "combination", "sensitive"}

\* the skin types a result is suitable for: "all" stands for every one
Permits(skin_types) ==
    IF "all" \in ToSet(skin_types) THEN SkinTypeNames ELSE ToSet(skin_types)

\* C28: for every comedogenicity in 0..5 and every irritancy of 3 or more the
\* skin types derived from the ratings hold neither "all" nor "sensitive",
\* and raising the irritancy with the comedogenicity fixed never permits a
\* skin type that the lower irritancy did not.
C28_IrritantsNeverForAll ==
    (stage = "out" /\ call.fn = "skin_types" /\ call.comedogenicity \in 0..MaxRating
        /\ call.irritancy \in 0..MaxRating) =>
        /\ call.irritancy >= 3 =>
               ("all" \notin ToSet(ret.skin_types) /\ "sensitive" \notin ToSet(ret.skin_types))
        /\ \A higher \in call.irritancy..MaxRating :
               Permits(get_skin_types_from_ratings(call.comedogenicity, higher))
                   \subseteq Permits(ret.skin_types)

-----------------------------------------------------------------------------
(* SpecResolver: one call of the resolver, on every ingredient page of       *)
(* IngredientPages and every failure of the fetch                            *)

ResolverNames == {"Aqua", "Parfum", "Dimethicone"}

PageTables ==
    { << << <<"Also called", "Glycerol">> >>, RatingTable(i, c, o) >> :
        i \in {0 - 1, 0, 2, 3, 5}, c \in {0 - 1, 0, 5}, o \in {"", "Goodie", "Icky"} }

PageBodies == {"",
               "Known allergen and irritant.",
               "Comedogenic rating: 4 out of 5",
               "Good for sensitive skin",
               "A preservative; may clog pores on oily skin."}

IngredientPages ==
    [function_elems : {<<>>, <<"Humectant">>},
     description_elems : {<<>>, <<"A skin-identical, gentle moisturizer.">>},
     body : PageBodies,
     tables : PageTables]

IngredientResponses ==
    {FetchRaises, FetchStatus(404)} \cup {FetchPage(soup) : soup \in IngredientPages}

InitResolver ==
    /\ CascadeIdle
    /\ stage = "call"
    /\ call \in [fn : {"resolve"}, ingredient_name : ResolverNames,
                 response : IngredientResponses, fault : ExtractionFaults]
    /\ (call.fault # 0) => (~call.response.raises /\ call.response.status_code = 200)
    /\ ret = [fn |-> "none"]

\* the resolver when the ingredient's page was fetched
ResolveFromPage ==
    /\ stage = "call"
    /\ call.fn = "resolve"
    /\ ~call.response.raises /\ call.response.status_code = 200
    /\ ret' = get_comprehensive_ingredient_data(ingredient_ratings_cache,
                  call.ingredient_name, call.response, call.fault)
    /\ stage' = "out"
    /\ UNCHANGED <<call, cascadeVars>>

\* the resolver when the fetch raised or answered with another status
ResolveWithoutPage ==
    /\ stage = "call"
    /\ call.fn = "resolve"
    /\ call.response.raises \/ call.response.status_code # 200
    /\ ret' = get_comprehensive_ingredient_data(ingredient_ratings_cache,
                  call.ingredient_name, call.response, call.fault)
    /\ stage' = "out"
    /\ UNCHANGED <<call, cascadeVars>>

NextResolver == ResolveFromPage \/ ResolveWithoutPage

SpecResolver == InitResolver /\ [][NextResolver]_vars

\* C5: every record the resolver returns has an integer safety_score in 0..10,
\* whichever tier produced it (the prose 'comedogenic 0-5' adjustment included).
C5_ScoreInRange ==
    (stage = "out" /\ call.fn = "resolve") => ret.safety_score \in 0..MaxScore

\* C6: in every record the resolver returns, risk_level is Safe for a score of
\* at most 2, Medium for 3 or 4, High for 5 or more, on every path, the one
\* where the page extraction is interrupted by an exception included.
C6_RiskLevelFromScore ==
    (stage = "out" /\ call.fn = "resolve") =>
        ret.risk_level = (IF ret.safety_score <= 2 THEN "Safe"
                          ELSE IF ret.safety_score <= 4 THEN "Medium" ELSE "High")

\* C15: on every tier the allergens of the resolved record contain every
\* category the fixed dictionary maps from a substring of the name; 'Parfum'
\* always resolves with allergen 'fragrance'.
C15_KnownAllergensOnEveryTier ==
    (stage = "out" /\ call.fn = "resolve") =>
        ToSet(check_known_allergens(call.ingredient_name)) \subseteq ToSet(ret.allergens)

\* a page on which the extraction finds nothing
EmptyPage == [function_elems |-> <<>>, description_elems |-> <<>>, body |-> "",
              tables |-> <<>>]

\* the extraction finds on the page nothing it would not find on an empty one
NoUsableData(soup, ingredient_name) ==
    extract_incidecoder_safety_data(soup, ingredient_name, 0)
        = extract_incidecoder_safety_data(EmptyPage, ingredient_name, 0)

\* C16: the resolver always returns a record, from the first tier that has
\* data: the session cache, else the fetched page; the keyword fallback is
\* used only when the fetch raised, answered another status than 200, or the
\* page had no usable data (an extraction cut short by an exception counted
\* as such).
C16_FallbackOnlyWithoutPageData ==
    (stage = "out" /\ call.fn = "resolve") =>
        /\ ret.safety_score \in Int
        /\ ret.source = "keyword_fallback" =>
               \/ call.response.raises
               \/ call.response.status_code # 200
               \/ call.fault # 0
               \/ NoUsableData(call.response.soup, call.ingredient_name)

-----------------------------------------------------------------------------
(* SpecExtract: one call of the extraction chain, on every product page of   *)
(* ProductPages and every failure of the fetch                               *)

\* the longest run of ingredient links on a page of the model
MaxLinks == 22

\* the link texts "PEG-1", ..., "PEG-n"
PegRun(n) == [i \in 1..n |-> "PEG-" \o Decimal(i)]


ContainerLinkRuns ==
    {<<>>,
     <<"Aqua", "Read more">>,
     <<"Aqua", "Glycerin", "Aqua">>,
     <<"Aqua", "  Glycerin ", "and Niacinamide", "Glycerin">>,
     PegRun(MaxLinks) \o <<"PEG-1">>}

OutsideLinkRuns == {<<>>, <<"Tocopherol">>, <<"Glycerin", "Parfum", "Aqua">>}

PageLists ==
    {<<>>,
     << <<"Home", "About", "Login">> >>,
     << <<"Home", "About">>,
        <<"Aqua", "Cetyl Alcohol", "Net weight 50 ml", "Glycerin", "Phenoxyethanol">> >>}

PageTextBlocks ==
    {<<>>,
     <<"Free of parabens.", "Ingredients: Aqua, Glycerin, Niacinamide, Sodium Hyaluronate, Parfum">>,
     <<"Water, Butylene Glycol; a short list">>}

ProductPages ==
    {[links |-> InContainer(c) \o Outside(o), lists |-> l, text_blocks |-> t] :
        c \in ContainerLinkRuns, o \in OutsideLinkRuns, l \in PageLists, t \in PageTextBlocks}

ProductPageResponses ==
    {FetchRaises, FetchStatus(404)} \cup {FetchPage(soup) : soup \in ProductPages}

InitExtract ==
    /\ CascadeIdle
    /\ stage = "call"
    /\ call \in [fn : {"extract"}, response : ProductPageResponses]
    /\ ret = [fn |-> "none"]

\* _extract_from_product_page when the product page was fetched
ExtractFromPage ==
    /\ stage = "call"
    /\ call.fn = "extract"
    /\ ~call.response.raises /\ call.response.status_code = 200
    /\ ret' = extract_from_product_page(call.response)
    /\ stage' = "out"
    /\ UNCHANGED <<call, cascadeVars>>

\* _extract_from_product_page when the fetch raised or answered with another status
ExtractWithoutPage ==
    /\ stage = "call"
    /\ call.fn = "extract"
    /\ call.response.raises \/ call.response.status_code # 200
    /\ ret' = extract_from_product_page(call.response)
    /\ stage' = "out"
    /\ UNCHANGED <<call, cascadeVars>>

NextExtract == ExtractFromPage \/ ExtractWithoutPage

SpecExtract == InitExtract /\ [][NextExtract]_vars

\* the page being extracted
Extracted == stage = "out" /\ call.fn = "extract"
ExtractedPage == Extracted /\ ~call.response.raises /\ call.response.status_code = 200

\* every candidate name of the page, strategy 1 first, then 2, 3 and 4
AllCandidates(soup) ==
    ContainerNames(soup) \o LinkNames(soup) \o ListNames(soup) \o TextNames(soup)

\* the valid names among the candidates of all four strategies
ValidNames(soup) == {n \in ToSet(AllCandidates(soup)) : is_valid_ingredient_name(n)}

\* where a name is first seen among the candidates
FirstSeen(candidates, name) ==
    CHOOSE i \in 1..Len(candidates) :
        candidates[i] = name /\ \A j \in 1..(i - 1) : candidates[j] # name

\* names is free of duplicates, all its names are candidates, and they stand
\* in the order in which they are first seen among the candidates
InFirstSeenOrder(names, candidates) ==
    /\ \A i \in 1..Len(names) : names[i] \in ToSet(candidates)
    /\ \A i, j \in 1..Len(names) :
           i < j => /\ names[i] # names[j]
                    /\ FirstSeen(candidates, names[i]) < FirstSeen(candidates, names[j])

\* C9: the list the extraction chain returns for a product page has no duplicate
\* name, at most 20 entries, and lists the names in the order in which they
\* were first seen across the strategies (strategy 1 before 2, and so on).
C9_NoDuplicatesCappedInOrder ==
    ExtractedPage =>
        /\ Len(ret.ingredients) <= MaxIngredients
        /\ InFirstSeenOrder(ret.ingredients, AllCandidates(call.response.soup))

\* C9 witness: a page with a repeated link and more than 20 valid names, of
\* which 20 were returned
C9_Witness ==
    /\ ExtractedPage
    /\ Len(ret.ingredients) = MaxIngredients
    /\ Cardinality(ValidNames(call.response.soup)) > MaxIngredients
    /\ \E i, j \in 1..Len(ContainerNames(call.response.soup)) :
           i < j /\ ContainerNames(call.response.soup)[i] = ContainerNames(call.response.soup)[j]

\* C10 as stated: when the four strategies together find only 1 or 2 valid
\* names the chain returns those names; it returns an empty list only when no
\* valid name was found; it never raises.
C10_ReturnsBestAvailable ==
    Extracted =>
        /\ ~ret.raised
        /\ ExtractedPage =>
               /\ Cardinality(ValidNames(call.response.soup)) \in 1..2 =>
                      ToSet(ret.ingredients) = ValidNames(call.response.soup)
               /\ ret.ingredients = <<>> => ValidNames(call.response.soup) = {}

\* C10 amended: when the four strategies together find 2 or fewer valid names
\* the chain returns an empty list (the 1 or 2 names are dropped); it returns
\* names, at least 3 of them, exactly when 3 or more were found; it never raises.
C10_FewNamesGiveEmpty ==
    Extracted =>
        /\ ~ret.raised
        /\ ExtractedPage =>
               /\ Cardinality(ValidNames(call.response.soup)) <= 2 => ret.ingredients = <<>>
               /\ Cardinality(ValidNames(call.response.soup)) > 2 => Len(ret.ingredients) > 2

\* C10 witness: a page on which 1 or 2 valid names were found, and the empty
\* list was returned
C10_Witness ==
    /\ ExtractedPage
    /\ Cardinality(ValidNames(call.response.soup)) \in 1..2
    /\ ret.ingredients = <<>>

\* the distinct valid names among candidates
ValidAmong(candidates) == {n \in ToSet(candidates) : is_valid_ingredient_name(n)}

\* the candidates of the strategies that are to run on a page: strategy 1,
\* then each next one while the ones before it gave fewer than 3 valid names
CandidatesInTurn(soup) ==
    IF Cardinality(ValidAmong(ContainerNames(soup))) >= 3
    THEN ContainerNames(soup)
    ELSE IF Cardinality(ValidAmong(ContainerNames(soup) \o LinkNames(soup))) >= 3
    THEN ContainerNames(soup) \o LinkNames(soup)
    ELSE IF Cardinality(ValidAmong(ContainerNames(soup) \o LinkNames(soup)
                                       \o ListNames(soup))) >= 3
    THEN ContainerNames(soup) \o LinkNames(soup) \o ListNames(soup)
    ELSE AllCandidates(soup)

\* C18: the strategies run in the order containers, link scan, lists, text
\* blocks, each only when those before it gave fewer than 3 valid names: the
\* returned names are those of the strategies in turn, in that order, and no
\* name comes from a strategy after the one that reached 3.
C18_StrategiesInTurn ==
    ExtractedPage =>
        /\ InFirstSeenOrder(ret.ingredients, CandidatesInTurn(call.response.soup))
        /\ ToSet(ret.ingredients) \subseteq ValidAmong(CandidatesInTurn(call.response.soup))
        /\ Cardinality(ValidAmong(CandidatesInTurn(call.response.soup)))
               \in 3..MaxIngredients =>
                   ToSet(ret.ingredients) = ValidAmong(CandidatesInTurn(call.response.soup))

\* C18 witness: the containers gave 3 valid names, and a valid name that only
\* a link outside them holds was not collected
C18_Witness ==
    /\ ExtractedPage
    /\ Cardinality(ValidAmong(ContainerNames(call.response.soup))) = 3
    /\ ToSet(ret.ingredients) = ValidAmong(ContainerNames(call.response.soup))
    /\ ValidAmong(LinkNames(call.response.soup)) \ ToSet(ret.ingredients) # {}

-----------------------------------------------------------------------------
(* SpecNames: the name validator, called on every name of CandidateNames,    *)
(* together with the cascade, whose Validate step applies it to the lists    *)
(* that were scraped or read from the product cache                          *)

RECURSIVE Repeat(_, _)
\* s * n
Repeat(s, n) == IF n = 0 THEN "" ELSE s \o Repeat(s, n - 1)

\* names at and around every rule of the validator
CandidateNames ==
    {"", "Aq", "Aqu", "Aqua", "Vitamin A", "Vitamin C+", "PEG-10", "Zinc (CI 77947)",
     "Retinol (Vitamin A", "Retinol [pure]", "Retinol [pure", "A-(.)-(.)-1", "A- -.-a",
     "Aqua and Glycerin", "water is good", "Aqua AND Oil", "and Aqua", "The Ordinary",
     "a Retinol", "Aqua and", "Retinol IS", "Aloe or", "is water", "Aqua\tand",
     "Aqua\n", "Aqua and\n", "Aqua\n\n", " Aqua", "Aqua ", "4-Butylresorcinol",
     "Read more", "Ingredients: Aqua", "Contains Aqua", "See www.inci.com",
     Repeat("Aqua ", 15) \o "Aqua", Repeat("Aqua ", 15) \o "Aqua1",
     Repeat("Aqua ", 15) \o "Aquas1"}

InitValidator ==
    /\ CascadeIdle
    /\ stage = "call"
    /\ call \in [fn : {"is_valid_ingredient"}, ingredient_name : CandidateNames]
    /\ ret = [fn |-> "none"]

\* _is_valid_ingredient is called on a name
ValidateName ==
    /\ stage = "call"
    /\ call.fn = "is_valid_ingredient"
    /\ ret' = [accepted |-> is_valid_ingredient(call.ingredient_name)]
    /\ stage' = "out"
    /\ UNCHANGED <<call, cascadeVars>>

InitNames == Init \/ InitValidator

NextNames == Next \/ ValidateName

SpecNames == InitNames /\ [][NextNames]_vars

\* the words that, between two spaces, mark a sentence
SentenceWords ==
    {"is", "are", "was", "were", "the", "and", "or", "but", "if", "when", "where",
     "what", "how", "why", "because", "since", "although", "however", "therefore",
     "moreover"}

\* the stop words a name may not start with, and those it may not end with
StopWordsFirst == {"and", "or", "but", "if", "when", "the", "a", "an"}
StopWordsLast == {"and", "or", "but", "if", "when", "the", "is", "are"}

\* what the specification promises of an accepted name
WellShapedName(name) ==
    /\ Len(name) >= 3 /\ Len(name) <= 80
    /\ CountChar(name, "(") = CountChar(name, ")")
    /\ CountChar(name, "[") = CountChar(name, "]")
    /\ 10 * Cardinality({i \in 1..Len(name) : IsAlnum(Char(name, i))}) >= 4 * Len(name)
    /\ \A w \in SentenceWords : ~Contains(Lower(name), " " \o w \o " ")
    /\ \A w \in StopWordsFirst : ~StartsWith(Lower(name), w \o " ")
    /\ \A w \in StopWordsLast : ~EndsWith(Lower(name), " " \o w)

-----------------------------------------------------------------------------
(* SpecScores: the aggregation of analyze_product (lines 118 and 181-188) on *)
(* every list of up to MaxScores safety scores, together with the cascade    *)

\* the longest list of scores aggregated
MaxScores == 3

ScoreLists == UNION {[1..n -> 0..MaxScore] : n \in 1..MaxScores}

InitAggregate ==
    /\ CascadeIdle
    /\ stage = "call"
    /\ call \in [fn : {"aggregate"}, safety_scores : ScoreLists]
    /\ ret = [fn |-> "none"]

\* lines 118 and 181-188 on ingredients resolved with the given scores
AggregateScores ==
    /\ stage = "call"
    /\ call.fn = "aggregate"
    /\ ret' = ProductAnalysis(
                  "Cerave",
                  [i \in 1..Len(call.safety_scores) |->
                      Ingredient(FallbackRecord("Aqua", call.safety_scores[i]), "Aqua")],
                  "Analysis complete", <<>>, <<>>)
    /\ stage' = "out"
    /\ UNCHANGED <<call, cascadeVars>>

InitScores == Init \/ InitAggregate

NextScores == Next \/ AggregateScores

SpecScores == InitScores /\ [][NextScores]_vars

\* r.overall_safety_score is exactly the mean of the scores of r's entries
ExactMean(r) ==
    r.overall_safety_score * Len(r.ingredients_analysis)
        = 100 * Sum(SafetyScores(r.ingredients_analysis))

\* r.overall_safety_score is the two-decimal number nearest to the mean
NearestToMean(r) ==
    /\ 2 * (r.overall_safety_score * Len(r.ingredients_analysis)
                - 100 * Sum(SafetyScores(r.ingredients_analysis)))
           <= Len(r.ingredients_analysis)
    /\ 2 * (100 * Sum(SafetyScores(r.ingredients_analysis))
                - r.overall_safety_score * Len(r.ingredients_analysis))
           <= Len(r.ingredients_analysis)

\* C12 as stated: in every non-Fallback analysis overall_safety_score is the
\* exact mean of the safety scores of ingredients_analysis, and the score is
\* 5.0 only through Fallback.
C12_ExactMeanAndFiveOnlyFallback ==
    /\ (stage = "out" /\ call.fn = "aggregate") =>
           ExactMean(ret) /\ ret.overall_safety_score # 500
    /\ (Returned /\ WellFormed /\ result.kind = "done") =>
           ExactMean(result) /\ result.overall_safety_score # 500

\* C12 amended: in every non-Fallback analysis overall_safety_score is the
\* mean of the safety scores of ingredients_analysis rounded to two decimals
\* (the exact mean when that has at most two decimals), which is 5.0 when the
\* scores average 5; every Fallback has the score 5.0 and no ingredients.
C12_RoundedMean ==
    /\ (stage = "out" /\ call.fn = "aggregate") =>
           /\ ret.kind = "done"
           /\ NearestToMean(ret)
           /\ (100 * Sum(call.safety_scores)) % Len(call.safety_scores) = 0 => ExactMean(ret)
    /\ (Returned /\ WellFormed /\ result.kind = "done") =>
           /\ result.ingredients_analysis # <<>>
           /\ NearestToMean(result)
    /\ (Returned /\ WellFormed /\ result.kind = "fallback") =>
           /\ result.overall_safety_score = 500
           /\ result.ingredients_analysis = <<>>

\* C12 witness: three scores whose mean, 8/3, was rounded to 2.67
C12_Witness ==
    /\ stage = "out" /\ call.fn = "aggregate"
    /\ call.safety_scores = <<1, 0, 7>>
    /\ ret.overall_safety_score = 267
    /\ ~ExactMean(ret)

-----------------------------------------------------------------------------
(* the cascade without its collaborator: analyzer.py lines 133-188 *)

\* the narrative collaborator is unconfigured, or both of its calls raised
Degraded ==
    \/ gemini_model = "none"
    \/ {"summary_raised", "alternatives_raised"} \subseteq trace

\* a request that went through the summary step has returned
Summarised == Returned /\ WellFormed /\ "summary" \in trace

\* the two texts the code writes without the collaborator's answer
TemplatedSummary(text, name) ==
    \/ StartsWith(text, "Analysis complete for " \o name \o ". Overall safety score: ")
    \/ /\ StartsWith(text, "Product analyzed: " \o name \o ". Safety score: ")
       /\ EndsWith(text, ". Consider ingredients carefully.")

\* the analysis and the score are those of the resolved ingredients, and the
\* summary is a template holding the mean score
DegradedCore ==
    /\ result.kind = "done"
    /\ result.ingredients_analysis = ingredients_analysis
    /\ NearestToMean(result)
    /\ TemplatedSummary(result.risk_summary, product_name)
    /\ Contains(result.risk_summary,
                ScoreText(Sum(SafetyScores(ingredients_analysis)),
                          Len(ingredients_analysis)))

-----------------------------------------------------------------------------
(* the cascade on a product-cache hit: analyzer.py lines 38-51 *)

\* the request being served found its product in the product cache
CacheHit == Serving /\ cached_product.found

\* C19: on a product-cache hit analyze_product takes the names of the stored
\* record (its comma-joined string, split), makes no product search and no
\* product-page extraction, and holds no session rating cache while the
\* ingredients are resolved.
C19_CacheHitSkipsScrape ==
    CacheHit =>
        /\ pc \notin {"search", "page"}
        /\ links = 0
        /\ ingredient_ratings_cache = NoCache
        /\ pc = "validate" => trace = {"lookup"}
        /\ pc \in {"validate", "resolve"} =>
               /\ \E j \in 1..Len(db) :
                      /\ db[j].name = product_name
                      /\ JoinWith(ingredients_list, ",") = db[j].ingredients
               /\ \A i \in 1..Len(ingredients_list) : ~Contains(ingredients_list[i], ",")

\* C19 witness: a request that hit the product cache has resolved its first
\* ingredient, without any fetch but that of the ingredient's page
C19_Witness ==
    /\ CacheHit
    /\ pc = "resolve"
    /\ Len(ingredients_list) = 2
    /\ Len(ingredients_analysis) = 1
    /\ trace = {"lookup", "fetch_200"}

\* C20: on a cache miss, when the scraped product page holds a rating table,
\* a session rating cache with the table's names exists while the request's
\* ingredients are resolved, and the ingredients of the table are resolved
\* from it without a fetch of their pages.
C20_TableGivesSessionCache ==
    (Serving /\ ~cached_product.found /\ "rating_table" \in trace /\ pc = "resolve") =>
        /\ ingredient_ratings_cache.present
        /\ \A i \in 1..Len(valid_ingredients) :
               valid_ingredients[i] \in DOMAIN ingredient_ratings_cache.data

-----------------------------------------------------------------------------
(* the resolution loop: analyzer.py lines 81-115 *)

RECURSIVE IsSubsequence(_, _)
\* the elements of a occur in b, in the same order
IsSubsequence(a, b) ==
    IF a = <<>> THEN TRUE
    ELSE IF b = <<>> THEN FALSE
    ELSE IF a[1] = b[1] THEN IsSubsequence(Tail(a), Tail(b))
    ELSE IsSubsequence(a, Tail(b))

\* the names of the entries of an analysis
AnalysisNames(analysis) == [i \in 1..Len(analysis) |-> analysis[i].name]

\* C21: every pass of the loop moves to the next validated name and either
\* skips it or appends one entry carrying that name, so the analysis is a
\* subsequence, in order, of the validated names; the request ends Done with
\* exactly these entries when there is one, and in Fallback when there is none.
C21_ResolvedSubsequence ==
    [][/\ pc = "resolve" =>
              /\ idx' = idx + 1
              /\ pc' = (IF idx < Len(valid_ingredients) THEN "resolve" ELSE "aggregate")
              /\ \/ ingredients_analysis' = ingredients_analysis
                 \/ /\ Len(ingredients_analysis') = Len(ingredients_analysis) + 1
                    /\ SubSeq(ingredients_analysis', 1, Len(ingredients_analysis))
                           = ingredients_analysis
                    /\ ingredients_analysis'[Len(ingredients_analysis')].name
                           = valid_ingredients[idx]
       /\ IsSubsequence(AnalysisNames(ingredients_analysis'), valid_ingredients')
       /\ (pc \in {"aggregate", "summarise"} /\ pc' = "returned") =>
              /\ result'.kind = "done" <=> ingredients_analysis # <<>>
              /\ result'.kind = "done" =>
                     result'.ingredients_analysis = ingredients_analysis
              /\ result'.kind # "done" => IsFallback(result')]_vars

\* C21 witness: of two validated names the first was skipped, and the
\* analysis returned holds the second alone
C21_Witness ==
    /\ Returned /\ WellFormed
    /\ result.kind = "done"
    /\ Len(valid_ingredients) = 2
    /\ AnalysisNames(result.ingredients_analysis) = <<valid_ingredients[2]>>

-----------------------------------------------------------------------------
(* the product cache in the cascade: analyzer.py lines 38-52 and 120-131 *)

\* the records stored under a name, and the others
RecordsOf(collection, name) == SelectSeq(collection, LAMBDA m : m.name = name)
OtherRecords(collection, name) == SelectSeq(collection, LAMBDA m : m.name # name)

\* the record analyze_product hands to add_product, as it is stored
StoredRecord ==
    [name |-> product_name,
     ingredients |-> JoinWith(valid_ingredients, ","),
     safety_score |-> RoundedMean(Sum(SafetyScores(ingredients_analysis)),
                                  Len(ingredients_analysis)),
     category |-> "skincare"]

\* the step that leaves the aggregation of a request that missed the cache
\* and has an analysis
MissAggregated == pc = "aggregate" /\ pc' = "summarise" /\ ~cached_product.found

\* C22 as stated: a request that misses the product cache and ends Done
\* writes exactly one record for its name; a request that hits writes
\* nothing; and a later request for a name that has a record hits the cache.
C22_MissWritesOnceThenHits ==
    [][/\ MissAggregated =>
              /\ RecordsOf(db', product_name) = <<StoredRecord>>
              /\ OtherRecords(db', product_name) = OtherRecords(db, product_name)
       /\ CacheHit => db' = db
       /\ (pc = "lookup" /\ RecordsOf(db, product_name) # <<>>) =>
              cached_product'.found /\ pc' = "validate"]_vars

\* C22 amended: a request that misses the product cache and ends Done makes
\* one write; when the write does not fail the cache then holds exactly one
\* record for its name (validated list, rounded mean, category), and when it
\* fails no record is added; the records of other names are untouched; a
\* request that hits writes nothing; and a later request for a name that has
\* a record hits the cache, without search or scrape, unless its lookup fails.
C22_MissWritesOnceUnlessFailing ==
    [][/\ MissAggregated =>
              /\ "write" \in trace'
              /\ "write_raised" \notin trace' =>
                     RecordsOf(db', product_name) = <<StoredRecord>>
              /\ "write_raised" \in trace' =>
                     /\ Len(RecordsOf(db', product_name)) <= 1
                     /\ IsSubsequence(RecordsOf(db', product_name),
                                      RecordsOf(db, product_name))
              /\ OtherRecords(db', product_name) = OtherRecords(db, product_name)
       /\ CacheHit => db' = db /\ "write" \notin trace'
       /\ (pc = "lookup" /\ RecordsOf(db, product_name) # <<>>
              /\ "lookup_raised" \notin trace') =>
              cached_product'.found /\ pc' = "validate"
       /\ pc = "lookup" => Len(RecordsOf(db, product_name)) <= 1]_vars

\* C22 witness: the second request found the record the first one wrote and
\* goes on to validate the stored list, with no fetch made
C22_Witness ==
    /\ CacheHit
    /\ pc = "validate"
    /\ nRequests = 2
    /\ trace = {"lookup"}
    /\ Len(RecordsOf(db, product_name)) = 1

-----------------------------------------------------------------------------
(* SpecRoundTrip: a list is put into the product cache and read back *)

\* the longest list stored
MaxStored == 3

\* names the validator accepts, and names it rejects (a comma, a sign, no
\* letter in front, nothing)
StoredNames ==
    {"Aqua", "Aqua\n", "PEG-10", "Zinc (CI 77947)", "Sodium Hyaluronate",
     "Aqua,Glycerin", "Vitamin C+", " Aqua", ""}

InitRoundTrip ==
    /\ CascadeIdle
    /\ stage = "call"
    /\ call \in [fn : {"put_get"},
                 ingredients : UNION {[1..n -> StoredNames] : n \in 0..MaxStored}]
    /\ ret = [fn |-> "none"]

\* add_product of the list under the name Cerave
PutProduct ==
    /\ stage = "call"
    /\ call.fn = "put_get"
    /\ db' = add_product(db, [name |-> "Cerave", ingredients |-> call.ingredients,
                              safety_score |-> 350, category |-> "skincare"],
                         "none").collection
    /\ stage' = "stored"
    /\ UNCHANGED <<gemini_model, ingredient_ratings_cache, pc, product_name,
                   cached_product, links, ingredients_list, valid_ingredients, idx,
                   ingredients_analysis, allergen_warnings, risk_summary, alternatives,
                   result, nRequests, trace, call, ret>>

\* get_product of the name Cerave
GetProduct ==
    /\ stage = "stored"
    /\ call.fn = "put_get"
    /\ ret' = get_product(db, "Cerave", FALSE)
    /\ stage' = "out"
    /\ UNCHANGED <<call, cascadeVars>>

NextRoundTrip == PutProduct \/ GetProduct

SpecRoundTrip == InitRoundTrip /\ [][NextRoundTrip]_vars

\* a list the cascade persists: not empty, every name accepted
Persistable(ingredients) ==
    /\ ingredients # <<>>
    /\ \A i \in 1..Len(ingredients) : is_valid_ingredient(ingredients[i])

\* C23: for every non-empty list of names the validator accepts, get after
\* put returns the list that was put, element for element and in order.
C23_StoredListRoundTrip ==
    (stage = "out" /\ call.fn = "put_get" /\ Persistable(call.ingredients)) =>
        /\ ret.found
        /\ ret.ingredients = call.ingredients

\* C23 witness: three accepted names, one of them ending in a newline, came
\* back as they were put
C23_Witness ==
    /\ stage = "out" /\ call.fn = "put_get"
    /\ call.ingredients = <<"Zinc (CI 77947)", "Aqua\n", "PEG-10">>
    /\ Persistable(call.ingredients)
    /\ ret.ingredients = call.ingredients

-----------------------------------------------------------------------------
(* the shared analyzer: main.py line 21.  Its fields are the product        *)
(* database, the narrative client and the scraper with its optional          *)
(* ingredient_ratings_cache; the endpoints of main.py run a request to its   *)
(* end before the next one starts                                            *)

-----------------------------------------------------------------------------
(* the product cache and the fallback analysis: analyzer.py lines 68-77,     *)
(* 113-131 and 190-192                                                       *)

FellBack == Returned /\ Serving /\ result.kind = "fallback"

\* C26: a request that ends in a fallback analysis leaves the product cache
\* as it found it: the cache changes in the write of lines 121-131 only, no
\* request that made that write ends in a fallback, and after a fallback on
\* a miss the cache holds no record of the name, so that the next lookup of
\* the name misses and the scrape is attempted again.
C26_FallbackWritesNothing ==
    [][/\ db' # db => ("write" \notin trace /\ "write" \in trace')
       /\ FellBack' => "write" \notin trace'
       /\ (FellBack' /\ ~cached_product'.found /\ "lookup_raised" \notin trace')
              => RecordsOf(db', product_name') = <<>>]_vars

\* C26 witness: the second request missed the cache, scraped, and fell back;
\* the record that the first request wrote is still the only one
C26_Witness ==
    /\ FellBack /\ nRequests = 2
    /\ ~cached_product.found
    /\ "fetch_200" \in trace
    /\ result.reason = "No valid ingredients found after filtering"
    /\ Len(db) = 1 /\ db[1].name # product_name

\* C27: after any sequence of analyze_product and clear_cache operations,
\* every record of the product cache has a non-empty ingredient list whose
\* names the validator accepts, and a request served from the cache never
\* ends in the fallback for missing ingredient data or for no valid
\* ingredient.
C27_StoredListsValid ==
    /\ \A i \in 1..Len(db) :
           /\ SplitIngredients(db[i].ingredients) # <<>>
           /\ \A k \in 1..Len(SplitIngredients(db[i].ingredients)) :
                  is_valid_ingredient(SplitIngredients(db[i].ingredients)[k])
    /\ (FellBack /\ cached_product.found) =>
           result.reason \notin {"No ingredient data available for analysis",
                                 "No valid ingredients found after filtering"}

\* C27 witness: the cache holds a record written from a page of which the
\* validator dropped a name, and a request served from it fell back because
\* none of its ingredients could be resolved
C27_Witness ==
    /\ FellBack /\ cached_product.found
    /\ result.reason = "Unable to analyze any ingredients successfully"
    /\ \E i \in 1..Len(db) : db[i].ingredients = "Aqua,Parfum"

-----------------------------------------------------------------------------
(* failures of the product cache: analyzer.py lines 40-44 and 121-131 *)

\* the cache as the write of the request in progress leaves it when it
\* succeeds
WrittenCache ==
    add_product(db,
                new_product_data(product_name, ingredients_list, valid_ingredients,
                                 RoundedMean(Sum(SafetyScores(ingredients_analysis)),
                                             Len(ingredients_analysis))),
                "none").collection

\* the alternatives the request in progress can return, given the cache
AlternativesFrom(cache) ==
    {suggest_alternatives(gemini_model, gemini_fails)
         \o (IF find_fails THEN <<>>
             ELSE Take(find_alternatives(cache, Sum(SafetyScores(ingredients_analysis)),
                                         Len(ingredients_analysis), product_name), 2)) :
        gemini_fails \in BOOLEAN, find_fails \in BOOLEAN}

\* C30: a failure of the product cache never makes a request fall back: a
\* lookup that raises is a miss and the request goes on to the scrape; a
\* write that raises is ignored, and the request returns the analysis, not a
\* fallback, that it would return had the write succeeded.
C30_CacheFailuresIgnored ==
    [][/\ (pc = "lookup" /\ "lookup_raised" \in trace') =>
              (pc' = "search" /\ ~cached_product'.found /\ result' = NoResult)
       /\ (pc = "aggregate" /\ "write_raised" \in trace') =>
              (pc' = "summarise" /\ result' = NoResult)
       /\ (pc = "summarise" /\ "write_raised" \in trace) =>
              /\ result'.kind = "done"
              /\ result'.ingredients_analysis = ingredients_analysis
              /\ result'.alternatives \in AlternativesFrom(WrittenCache)]_vars

\* C30 witness: the lookup raised and the write raised, and the request
\* returned an analysis with an alternative from the cache
C30_Witness ==
    /\ Returned /\ Serving
    /\ "lookup_raised" \in trace /\ "write_raised" \in trace
    /\ result.kind = "done"
    /\ \E i \in 1..Len(db) : db[i].name # product_name
    /\ result.alternatives # <<>>

-----------------------------------------------------------------------------
(* SpecReplay: analyze_product is called twice for one product name, with    *)
(* the ingredient pages answering the same way both times.  One action is    *)
(* one call, from line 29 to its return                                      *)

\* the answer to the resolution of one ingredient: the call raises, or the
\* ingredient's page answers
IngredientAnswers ==
    {[raises |-> TRUE, response |-> FetchRaises]}
        \cup {[raises |-> FALSE, response |-> r] : r \in CascadeIngredientResponses}

\* the most ingredients in a replayed list
MaxReplayed == 3

\* what extract_ingredients_from_product returns to the first call
ReplayLists ==
    {<<>>,
     <<"Aqua", "Vitamin C+", "Parfum">>,
     <<"Vitamin C+", "Omega 3/6", "Aloe & Oat">>,
     <<"Aqua\n", "Sodium Hyaluronate", "Parfum">>,
     <<"Aqua", "Glycerin">>}

\* lines 46-60: the list from the cache on a hit, from the scrape otherwise
list_to_analyze(cached, scraped) == IF cached.found THEN cached.ingredients ELSE scraped

\* lines 82-110: the places in the list of the names whose resolution does
\* not raise
resolved_places(names, answers) ==
    SelectSeq([j \in 1..Len(names) |-> j], LAMBDA j : ~answers[j].raises)

\* lines 82-88: the data of every name whose resolution does not raise
data_of(names, answers, places) ==
    [k \in 1..Len(places) |->
        get_comprehensive_ingredient_data(
            NoCache, names[places[k]], answers[places[k]].response, 0)]

\* lines 90-103: their Ingredients
analysis_of(names, places, data) ==
    [k \in 1..Len(places) |-> Ingredient(data[k], names[places[k]])]

\* lines 105-106: their allergens
warnings_of(data) == Flatten([k \in 1..Len(data) |-> data[k].allergens])

\* lines 68-115: the fallback a call ends in, "" when it ends in none
fallback_reason(list, valid, analysis) ==
    IF ~has_ingredient_data(list) THEN "No ingredient data available for analysis"
    ELSE IF valid = <<>> THEN "No valid ingredients found after filtering"
    ELSE IF analysis = <<>> THEN "Unable to analyze any ingredients successfully"
    ELSE ""

\* lines 121-131: the cache after the call
cache_after(collection, name, cached, list, valid, analysis) ==
    IF fallback_reason(list, valid, analysis) # "" \/ cached.found THEN collection
    ELSE add_product(
             collection,
             new_product_data(name, list, valid,
                              RoundedMean(Sum(SafetyScores(analysis)), Len(analysis))),
             "none").collection

\* lines 29-192: what the call returns
analysis_returned(collection, model, name, list, valid, analysis, warnings) ==
    IF fallback_reason(list, valid, analysis) # ""
    THEN create_fallback_analysis(name, fallback_reason(list, valid, analysis))
    ELSE ProductAnalysis(
             name, analysis,
             generate_product_summary(model, name, Sum(SafetyScores(analysis)),
                                      Len(analysis), FALSE),
             warnings,
             suggest_alternatives(model, FALSE)
                 \o Take(find_alternatives(collection, Sum(SafetyScores(analysis)),
                                           Len(analysis), name), 2))

InitReplay ==
    /\ CascadeIdle
    /\ stage = "call"
    /\ call \in [fn : {"replay"}, product_name : {"Cerave"}, scraped : ReplayLists,
                 answers : [1..MaxReplayed -> IngredientAnswers]]
    /\ ret = [fn |-> "none"]

\* the first call: the cache is empty and the list is scraped
AnalyzeScraped ==
    /\ stage = "call"
    /\ call.fn = "replay"
    /\ \E cached \in {get_product(db, call.product_name, FALSE)} :
       \E list \in {list_to_analyze(cached, call.scraped)} :
       \E valid \in {SelectSeq(list, is_valid_ingredient)} :
       \E places \in {resolved_places(valid, call.answers)} :
       \E data \in {data_of(valid, call.answers, places)} :
       \E analysis \in {analysis_of(valid, places, data)}, warnings \in {warnings_of(data)} :
          /\ db' = cache_after(db, call.product_name, cached, list, valid, analysis)
          /\ ret' = [fn |-> "replay",
                     first |-> analysis_returned(db', gemini_model, call.product_name,
                                                 list, valid, analysis, warnings)]
    /\ stage' = "stored"
    /\ UNCHANGED <<gemini_model, ingredient_ratings_cache, pc, product_name,
                   cached_product, links, ingredients_list, valid_ingredients, idx,
                   ingredients_analysis, allergen_warnings, risk_summary, alternatives,
                   result, nRequests, trace, call>>

\* the second call, for the same name: the scrape, were it reached, would
\* return the same list
AnalyzeAgain ==
    /\ stage = "stored"
    /\ call.fn = "replay"
    /\ \E cached \in {get_product(db, call.product_name, FALSE)} :
       \E list \in {list_to_analyze(cached, call.scraped)} :
       \E valid \in {SelectSeq(list, is_valid_ingredient)} :
       \E places \in {resolved_places(valid, call.answers)} :
       \E data \in {data_of(valid, call.answers, places)} :
       \E analysis \in {analysis_of(valid, places, data)}, warnings \in {warnings_of(data)} :
          /\ db' = cache_after(db, call.product_name, cached, list, valid, analysis)
          /\ ret' = [fn |-> "replay",
                     first |-> ret.first,
                     cached |-> cached,
                     second |-> analysis_returned(db', gemini_model, call.product_name,
                                                  list, valid, analysis, warnings)]
    /\ stage' = "out"
    /\ UNCHANGED <<gemini_model, ingredient_ratings_cache, pc, product_name,
                   cached_product, links, ingredients_list, valid_ingredients, idx,
                   ingredients_analysis, allergen_warnings, risk_summary, alternatives,
                   result, nRequests, trace, call>>

NextReplay == AnalyzeScraped \/ AnalyzeAgain

SpecReplay == InitReplay /\ [][NextReplay]_vars

Replayed == stage = "out" /\ call.fn = "replay"

\* C29: when the first call stored the product and the ingredient pages
\* answer the second call as they answered the first, the second call is
\* served from the cache, re-validating the stored list removes nothing, and
\* the two calls return the same ingredients_analysis, overall_safety_score
\* and allergen_warnings.
C29_HitRepeatsMiss ==
    (Replayed /\ ret.first.kind = "done") =>
        /\ ret.cached.found
        /\ SelectSeq(ret.cached.ingredients, is_valid_ingredient) = ret.cached.ingredients
        /\ ret.cached.ingredients = SelectSeq(call.scraped, is_valid_ingredient)
        /\ ret.second.kind = "done"
        /\ ret.second.ingredients_analysis = ret.first.ingredients_analysis
        /\ ret.second.overall_safety_score = ret.first.overall_safety_score
        /\ ret.second.allergen_warnings = ret.first.allergen_warnings

\* C29 witness: of three scraped names the validator kept two, one of which
\* did not resolve; the second call was served from the cache and returned
\* the one analysis again, with its allergen warning
C29_Witness ==
    /\ Replayed /\ ret.first.kind = "done"
    /\ call.scraped = <<"Aqua", "Vitamin C+", "Parfum">>
    /\ call.answers[1].raises /\ ~call.answers[2].raises
    /\ ret.cached.found /\ ret.cached.ingredients = <<"Aqua", "Parfum">>
    /\ Len(ret.second.ingredients_analysis) = 1
    /\ ret.second.ingredients_analysis[1].name = "Parfum"
    /\ ret.second.allergen_warnings # <<>>

-----------------------------------------------------------------------------
(* SpecPuts: sequences of puts on either product database; call.puts is the  *)
(* list of the puts made so far                                              *)

\* the most puts in a sequence
MaxPuts == 3

PutNames == {"Cerave", "CERAVE", "Nivea"}
PutScores == {100, 200}

PutRecord(name, score) ==
    [name |-> name, ingredients |-> <<"Aqua", "Parfum">>, safety_score |-> score,
     category |-> "skincare"]

InitPuts ==
    /\ CascadeIdle
    /\ stage = "call"
    /\ call \in [fn : {"puts"}, database : {"ProductDatabase", "SimpleProductDatabase"},
                 puts : {<<>>}]
    /\ ret = [fn |-> "none"]

\* ProductDatabase.add_product
PutChroma ==
    /\ stage = "call"
    /\ call.fn = "puts" /\ call.database = "ProductDatabase"
    /\ Len(call.puts) < MaxPuts
    /\ \E name \in PutNames, score \in PutScores, fault \in WriteFaults :
          /\ db' = add_product(db, PutRecord(name, score), fault).collection
          /\ call' = [call EXCEPT !.puts =
                         Append(@, [record |-> PutRecord(name, score), fault |-> fault])]
    /\ UNCHANGED <<gemini_model, ingredient_ratings_cache, pc, product_name,
                   cached_product, links, ingredients_list, valid_ingredients, idx,
                   ingredients_analysis, allergen_warnings, risk_summary, alternatives,
                   result, nRequests, trace, stage, ret>>

\* SimpleProductDatabase.add_product
PutSimple ==
    /\ stage = "call"
    /\ call.fn = "puts" /\ call.database = "SimpleProductDatabase"
    /\ Len(call.puts) < MaxPuts
    /\ \E name \in PutNames, score \in PutScores :
          /\ db' = simple_add_product(db, PutRecord(name, score))
          /\ call' = [call EXCEPT !.puts =
                         Append(@, [record |-> PutRecord(name, score), fault |-> "none"])]
    /\ UNCHANGED <<gemini_model, ingredient_ratings_cache, pc, product_name,
                   cached_product, links, ingredients_list, valid_ingredients, idx,
                   ingredients_analysis, allergen_warnings, risk_summary, alternatives,
                   result, nRequests, trace, stage, ret>>

NextPuts == PutChroma \/ PutSimple

SpecPuts == InitPuts /\ [][NextPuts]_vars

PutsMade == call.fn = "puts"

\* get of the database under test
GetFrom(name) ==
    IF call.database = "ProductDatabase" THEN get_product(db, name, FALSE)
    ELSE simple_get_product(db, name)

\* the name under which the database under test files a record
FiledUnder(record) ==
    IF call.database = "ProductDatabase" THEN record.name ELSE record.key

\* a product as get hands it out is the record that was put
IsRecord(product, record) ==
    /\ product.found
    /\ product.name = record.name
    /\ product.ingredients = record.ingredients
    /\ product.safety_score = record.safety_score
    /\ product.category = record.category

\* the puts for exactly this name
PutsForExact(name) == SelectSeq(call.puts, LAMBDA p : p.record.name = name)

\* the puts for a name that touched the collection (model.encode did not raise)
Effective(puts) == SelectSeq(puts, LAMBDA p : p.fault # "encode")

\* the names as the database under test tells them apart
StoredName(a, b) ==
    IF call.database = "ProductDatabase" THEN a = b ELSE Lower(a) = Lower(b)

\* the puts for this name as the database under test sees it
PutsForStored(name) == SelectSeq(call.puts, LAMBDA p : StoredName(p.record.name, name))

\* the puts that returned
PutsReturned(puts) == SelectSeq(puts, LAMBDA p : p.fault = "none")

\* the product name in a stored record
NameIn(record) ==
    IF call.database = "ProductDatabase" THEN record.name ELSE record.data.name

\* C24 as stated: after any sequence of puts the cache holds at most one
\* record per product name and get(name) returns the record of the most
\* recent put for that name (so a put leaves the other names alone).
C24_UpsertAnyPuts ==
    PutsMade =>
        /\ \A i, j \in 1..Len(db) : i < j => NameIn(db[i]) # NameIn(db[j])
        /\ \A name \in PutNames :
               PutsReturned(PutsForExact(name)) # <<>> =>
                   IsRecord(GetFrom(name),
                            PutsReturned(PutsForExact(name))
                                [Len(PutsReturned(PutsForExact(name)))].record)

\* C24 amended: after any sequence of puts the cache holds at most one record
\* per product name, and get(name) returns the record of the most recent put
\* for that name that reached the collection, or nothing when that put failed
\* in collection.add (the earlier record is then lost); a put leaves the other
\* names alone.  ProductDatabase tells names apart exactly,
\* SimpleProductDatabase without regard to case.
C24_UpsertPerDatabase ==
    PutsMade =>
        /\ \A i, j \in 1..Len(db) : i < j => FiledUnder(db[i]) # FiledUnder(db[j])
        /\ \A name \in PutNames :
               IF Effective(PutsForStored(name)) = <<>>
               THEN ~GetFrom(name).found
               ELSE IF Effective(PutsForStored(name))
                           [Len(Effective(PutsForStored(name)))].fault = "add"
               THEN ~GetFrom(name).found
               ELSE IsRecord(GetFrom(name),
                             Effective(PutsForStored(name))
                                 [Len(Effective(PutsForStored(name)))].record)

\* C24 witness: Cerave was put, then Nivea, then Cerave again with another
\* score; the cache holds two records and Cerave's is the later one
C24_Witness ==
    /\ PutsMade /\ call.database = "ProductDatabase"
    /\ Len(call.puts) = 3
    /\ \A i \in 1..3 : call.puts[i].fault = "none"
    /\ call.puts[1].record = PutRecord("Cerave", 100)
    /\ call.puts[2].record = PutRecord("Nivea", 100)
    /\ call.puts[3].record = PutRecord("Cerave", 200)
    /\ Len(db) = 2
    /\ GetFrom("Cerave").safety_score = 200

-----------------------------------------------------------------------------
(* SpecAdmin: the cascade together with main.py's clear_cache endpoint.  Both *)
(* endpoints are coroutines without an await, so a call of clear_cache runs   *)
(* between two requests, never inside one                                     *)

\* os.getenv("ADMIN_PASSWORD"): None, or the text of the variable
Unset == [configured |-> FALSE, value |-> ""]
Secret(value) == [configured |-> TRUE, value |-> value]

AdminSecrets == {Unset, Secret(""), Secret("s3cret")}
Passwords == {"", "s3cret", "guess"}

\* the call of clear_all_cache that raises
ClearFaults == {"none", "delete_collection", "get_or_create_collection"}

\* analyzer.py lines 14-27.  When get_or_create_collection raises the
\* products are already deleted; that the stale collection handle then fails
\* every later write is left to the write faults of add_product
clear_all_cache(collection, fault) ==
    [success |-> fault = "none",
     collection |-> IF fault = "delete_collection" THEN collection ELSE <<>>]

\* clear_cache accepting any password
clear_cache_unchecked(collection, admin_password, password, fault) ==
    IF clear_all_cache(collection, fault).success
    THEN [status |-> 200, detail |-> "All cache cleared successfully!",
          collection |-> clear_all_cache(collection, fault).collection]
    ELSE [status |-> 500, detail |-> "Failed to clear cache",
          collection |-> clear_all_cache(collection, fault).collection]

\* main.py lines 48-64
clear_cache(collection, admin_password, password, fault) ==
    IF ~admin_password.configured \/ admin_password.value = ""
    THEN [status |-> 500, detail |-> "Admin password not configured",
          collection |-> collection]
    ELSE IF password # admin_password.value
    THEN [status |-> 401, detail |-> "Invalid password", collection |-> collection]
    ELSE IF clear_all_cache(collection, fault).success
    THEN [status |-> 200, detail |-> "All cache cleared successfully!",
          collection |-> clear_all_cache(collection, fault).collection]
    ELSE [status |-> 500, detail |-> "Failed to clear cache",
          collection |-> clear_all_cache(collection, fault).collection]

ClearCache ==
    /\ pc = "idle"
    /\ stage = "none"
    /\ \E admin_password \in AdminSecrets, password \in Passwords, fault \in ClearFaults :
          /\ call' = [fn |-> "clear_cache", password |-> password,
                      admin_password |-> admin_password]
          /\ result' = [kind |-> "http",
                        status |-> clear_cache(db, admin_password, password, fault).status,
                        detail |-> clear_cache(db, admin_password, password, fault).detail]
          /\ db' = clear_cache(db, admin_password, password, fault).collection
    /\ pc' = "returned"
    /\ UNCHANGED <<gemini_model, ingredient_ratings_cache, product_name, cached_product,
                   links, ingredients_list, valid_ingredients, idx, ingredients_analysis,
                   allergen_warnings, risk_summary, alternatives, nRequests, trace,
                   stage, ret>>

NextAdmin == Next \/ ClearCache

SpecAdmin == Init /\ [][NextAdmin]_vars

\* C14: a clear_cache call changes the product cache only when its password
\* equals the configured, non-empty secret; with no secret configured it
\* fails with status 500, with a different password with status 401, and in
\* both cases the product cache is unchanged.
C14_ClearOnlyWithSecret ==
    [][(pc = "idle" /\ call'.fn = "clear_cache") =>
          /\ db' # db =>
                 /\ call'.admin_password.configured
                 /\ call'.admin_password.value # ""
                 /\ call'.password = call'.admin_password.value
                 /\ db' = <<>>
          /\ (~call'.admin_password.configured \/ call'.admin_password.value = "") =>
                 result'.status = 500 /\ db' = db
          /\ (/\ call'.admin_password.configured
              /\ call'.admin_password.value # ""
              /\ call'.password # call'.admin_password.value) =>
                 result'.status = 401 /\ db' = db]_vars

\* C14 witness: a wrong password was refused while the cache held a product
C14_Witness ==
    /\ pc = "returned"
    /\ call.fn = "clear_cache"
    /\ call.admin_password = Secret("s3cret")
    /\ call.password = "guess"
    /\ result.status = 401
    /\ db # <<>>

-----------------------------------------------------------------------------
(* SpecKeywords: the keyword fallback on names that hold one keyword or two *)

KeywordSamples ==
    {"Water", "Aqua", "Glycerin", "Hyaluronic", "Ceramide", "Squalane", "Niacinamide",
     "Tocopherol", "Salicylic Acid", "Lactic Acid", "Glycolic Acid", "Oil", "Extract",
     "Aloe", "Retinol", "Phenoxyethanol", "Methylparaben", "Fragrance", "Parfum",
     "Denatured Alcohol", "Alcohol Denat", "Formaldehyde", "DMDM Hydantoin",
     "Quaternium-15", "Benzoyl Peroxide", "Dimethicone", "Rose"}

KeywordNames ==
    KeywordSamples \cup {a \o " " \o b : a \in KeywordSamples, b \in KeywordSamples}

InitKeywords ==
    /\ CascadeIdle
    /\ stage = "call"
    /\ call \in [fn : {"keyword_fallback"}, ingredient_name : KeywordNames]
    /\ ret = [fn |-> "none"]

ScoreByKeyword ==
    /\ stage = "call"
    /\ call.fn = "keyword_fallback"
    /\ ret' = get_fallback_safety_score_dict(call.ingredient_name)
    /\ stage' = "out"
    /\ UNCHANGED <<call, cascadeVars>>

NextKeywords == ScoreByKeyword

SpecKeywords == InitKeywords /\ [][NextKeywords]_vars

\* the rows of the table as the statement gives them: score, keywords
TableRows ==
    << <<0, {"water", "aqua"}>>,
       <<1, {"glycerin", "hyaluronic", "ceramide"}>>,
       <<2, {"niacinamide", "tocopherol"}>>,
       <<3, {"salicylic acid", "lactic acid", "glycolic acid"}>>,
       <<7, {"fragrance", "parfum", "denatured alcohol", "alcohol denat"}>>,
       <<8, {"formaldehyde", "dmdm hydantoin", "quaternium-15"}>> >>

\* the rows stated for any name that contains one of their keywords
AnyNameRows == {1, 5, 6}

\* every keyword of _get_fallback_safety_score
AllKeywords ==
    {"water", "aqua", "glycerin", "hyaluronic", "sodium hyaluronate", "ceramide",
     "squalane", "panthenol", "allantoin", "betaine", "niacinamide", "vitamin e",
     "tocopherol", "salicylic acid", "lactic acid", "glycolic acid", "oil", "extract",
     "retinol", "retinyl", "retinoic", "tretinoin", "phenoxyethanol", "benzyl alcohol",
     "potassium sorbate", "parabens", "methylparaben", "propylparaben", "fragrance",
     "parfum", "alcohol denat", "denatured alcohol", "formaldehyde", "dmdm hydantoin",
     "quaternium-15", "benzoyl peroxide", "hydrogen peroxide"}

\* the rows of which the name holds a keyword
RowsOf(name) == {r \in 1..Len(TableRows) : ContainsAny(Lower(name), TableRows[r][2])}

\* C17: under the keyword fallback a name containing water or aqua scores 0,
\* fragrance, parfum or denatured alcohol 7, a formaldehyde releaser 8,
\* whatever other keywords it holds; a name of the glycerin, niacinamide or
\* acid row alone scores 1, 2 or 3; a name with no keyword scores 3.  (A name
\* that holds keywords of two of the rows stated for any name is left out.)
C17_ScoreByKeywordTable ==
    (stage = "out" /\ call.fn = "keyword_fallback") =>
        /\ \A r \in AnyNameRows :
               RowsOf(call.ingredient_name) \cap AnyNameRows = {r} =>
                   ret.safety_score = TableRows[r][1]
        /\ \A r \in (1..Len(TableRows)) \ AnyNameRows :
               RowsOf(call.ingredient_name) = {r} =>
                   ret.safety_score = TableRows[r][1]
        /\ ~ContainsAny(Lower(call.ingredient_name), AllKeywords) => ret.safety_score = 3

=============================================================================
